---- MODULE Spec2Model ----
(***************************************************************************)
(* Model of the online judge (oj-tbd21): the judging pipeline of           *)
(* src/oj-tbd21/src/main.rs, fn judge, one step per stage of the function. *)
(*                                                                         *)
(* A text (String) is a sequence of symbols.  The symbols " " and "\n"     *)
(* are white space / line break; every other symbol stands for a chunk of  *)
(* non-blank text.  An OjResult is the name of its enum variant.           *)
(***************************************************************************)
EXTENDS Naturals, Sequences, FiniteSets, TLC

VARIABLES
    pc,            \* position inside judge
    problem,       \* the Problem of the submission (read-only configuration)
    result,        \* let mut result
    score,         \* let mut score
    case_results,  \* let mut case_results
    i,             \* index of the 'cases loop (0-based, as in the code)
    answer,        \* let answer      (reference answer of the current case)
    output,        \* content of the file "output" the program writes to
    child,         \* run_child: "none", "running", "exited", "killed"
    status,        \* exit status of run_child once it has exited
    elapsed,       \* run_instant.elapsed(), advanced by the clock
    run_time,      \* let mut run_time (last sample of the clock)
    spj_success,   \* output.status.success() of the verifier
    spj_stdout,    \* output.stdout of the verifier
    ret,           \* what judge returned: "none", "job", "err"
    jobs,          \* table jobs of oj.db, in insertion order
    users,         \* table users of oj.db
    contests,      \* table contests of oj.db
    now,           \* Utc::now(), in milliseconds (the resolution of FORMAT)
    request,       \* the request being handled, or the last one handled
    response,      \* the HttpResponse to the last request handled
    workers,       \* the handler each worker thread of the server runs
    temp,          \* the directories under temp/, by their names
    current_game,  \* Wordle::current_game
    game_state,    \* Wordle::game_state
    config,        \* Wordle::config
    playing        \* the word game runs (its loop of games, or its window)

\* what lives outside judge: the database, the clock, the request
\* the worker threads of HttpServer and the workspaces of their judgments
worker_vars == <<workers, temp>>

server_vars ==
    <<jobs, users, contests, now, request, response, workers, temp>>

\* the word game, a program of its own
wordle_vars == <<current_game, game_state, config, playing>>

vars == <<pc, problem, result, score, case_results, i, answer, output,
          child, status, elapsed, run_time, spj_success, spj_stdout, ret,
          jobs, users, contests, now, request, response, workers, temp,
          current_game, game_state, config, playing>>

----------------------------------------------------------------------------
(* Bounds *)

MaxCases == 2      \* cases per problem
MaxTime == 2       \* largest clock reading (microseconds)
MaxLen == 3        \* length of the texts compared by the text classifier
MaxVerLen == 4     \* length of the verifier's standard output
MaxJobs == 3       \* rows of table jobs
MaxNow == 3        \* largest reading of Utc::now()
MaxUsers == 3      \* rows of table users
MaxGuesses == 7    \* guesses of one game of the word game

----------------------------------------------------------------------------
(* Enumerations of main.rs *)

ProblemType == {"Standard", "Strict", "Spj", "DynamicRanking"}

OjResult ==
    {"Waiting", "Running", "Accepted", "CompilationError",
     "CompilationSuccess", "WrongAnswer", "RuntimeError",
     "TimeLimitExceeded", "MemoryLimitExceeded", "SystemError",
     "SpjError", "Skipped"}

\* serde name of each OjResult variant -> variant
ResultNames ==
    [n \in {"Waiting", "Running", "Accepted", "Compilation Error",
            "Compilation Success", "Wrong Answer", "Runtime Error",
            "Time Limit Exceeded", "Memory Limit Exceeded", "System Error",
            "SPJ Error", "Skipped"} |->
        CASE n = "Waiting" -> "Waiting"
          [] n = "Running" -> "Running"
          [] n = "Accepted" -> "Accepted"
          [] n = "Compilation Error" -> "CompilationError"
          [] n = "Compilation Success" -> "CompilationSuccess"
          [] n = "Wrong Answer" -> "WrongAnswer"
          [] n = "Runtime Error" -> "RuntimeError"
          [] n = "Time Limit Exceeded" -> "TimeLimitExceeded"
          [] n = "Memory Limit Exceeded" -> "MemoryLimitExceeded"
          [] n = "System Error" -> "SystemError"
          [] n = "SPJ Error" -> "SpjError"
          [] n = "Skipped" -> "Skipped"]

----------------------------------------------------------------------------
(* Texts *)

Min(a, b) == IF a < b THEN a ELSE b

SeqsUpTo(S, n) == UNION {[1..k -> S] : k \in 0..n}

\* symbols of a program's output and of a reference answer
TextSymbols == {"a", " ", "\n"}
Texts == SeqsUpTo(TextSymbols, MaxLen)

\* symbols of the verifier's output: two result names, other text, blanks
VerifierSymbols == {"Accepted", "Wrong Answer", "x", " ", "\n"}
VerifierOutputs == SeqsUpTo(VerifierSymbols, MaxVerLen)

\* contents of the files and pipes met while a whole job is judged
Files == {<<>>, <<"a">>}
Stderrs == {<<>>, <<"a">>}
CompileTimes == {0, MaxTime}
VerifierSamples ==
    {<<"Accepted", "\n", "x">>, <<"Wrong Answer", "\n", "x">>,
     <<"x", "\n", "x">>, <<"Accepted">>}

IsWhitespace(c) == c \in {" ", "\n"}

\* str::split('\n'): the pieces between line breaks; "" gives one empty piece
RECURSIVE Split(_)
Split(s) ==
    IF \A k \in 1..Len(s) : s[k] # "\n"
    THEN <<s>>
    ELSE LET k == CHOOSE j \in 1..Len(s) :
                    s[j] = "\n" /\ \A m \in 1..(j - 1) : s[m] # "\n"
         IN <<SubSeq(s, 1, k - 1)>> \o Split(SubSeq(s, k + 1, Len(s)))

RECURSIVE TrimStart(_)
TrimStart(s) ==
    IF s # <<>> /\ IsWhitespace(Head(s)) THEN TrimStart(Tail(s)) ELSE s

RECURSIVE TrimEnd(_)
TrimEnd(s) ==
    IF s # <<>> /\ IsWhitespace(s[Len(s)])
    THEN TrimEnd(SubSeq(s, 1, Len(s) - 1))
    ELSE s

\* str::trim
Trim(s) == TrimEnd(TrimStart(s))

\* .split('\n').map(|l| l.trim())
TrimmedLines(s) == LET l == Split(s) IN [k \in 1..Len(l) |-> Trim(l[k])]

\* Standard | DynamicRanking: zip stops at the shorter of the two line lists
StandardEqual(out, ans) ==
    LET l == TrimmedLines(out)
        r == TrimmedLines(ans)
    IN \A k \in 1..Min(Len(l), Len(r)) : l[k] = r[k]

\* mutant: Strict compares the way Standard does
StrictEqual_Trimmed(out, ans) == StandardEqual(out, ans)

\* Strict
StrictEqual(out, ans) == out = ans

\* verdict of a case that ran to exit status 0, for the text problem types
TextVerdict(ptype, out, ans) ==
    IF ptype = "Strict"
    THEN IF StrictEqual(out, ans) THEN "Accepted" ELSE "WrongAnswer"
    ELSE IF StandardEqual(out, ans) THEN "Accepted" ELSE "WrongAnswer"

\* mutant: the empty lines of the verifier's output are kept
SpjLines_KeepEmpty(out) == TrimmedLines(out)

\* .split('\n').map(trim).filter(|s| !s.is_empty()) of the verifier's stdout
SpjLines(out) == SelectSeq(TrimmedLines(out), LAMBDA l : l # <<>>)

\* mutant: an unknown token counts as a wrong answer
ParseResult_UnknownIsWrongAnswer(line) ==
    IF Len(line) = 1 /\ line[1] \in DOMAIN ResultNames
    THEN ResultNames[line[1]]
    ELSE "WrongAnswer"

\* serde_json::from_str("\"<line>\""): the variant, or "Err".  A chunk stands
\* for text free of quotes and backslashes, so a line is a result name exactly
\* if it is the one chunk that spells it.
ParseResult(line) ==
    IF Len(line) = 1 /\ line[1] \in DOMAIN ResultNames
    THEN ResultNames[line[1]]
    ELSE "Err"

----------------------------------------------------------------------------
(* Configuration *)

\* case k weighs 2^(k-1): a score tells which cases contributed to it
Weight(k) == 2 ^ (k - 1)
Scores == {Weight(k) : k \in 1..MaxCases}
TimeLimits == {0, 1}

Case == [score : Scores, time_limit : TimeLimits]

\* misc.special_judge matters to Spj problems only; it is drawn for those
Problem ==
    {p \in [problem_type : ProblemType,
            special_judge : BOOLEAN,
            cases : SeqsUpTo(Case, MaxCases)] :
        /\ p.problem_type # "Spj" => ~p.special_judge
        /\ \A k \in 1..Len(p.cases) : p.cases[k].score = Weight(k)}

CaseResult(id, res, time, info) ==
    [id |-> id, result |-> res, time |-> time, memory |-> 0, info |-> info]

\* result = match result { Accepted => verdict, result => result }
KeepFirst(cur, verdict) == IF cur = "Accepted" THEN verdict ELSE cur

\* result = match spj_result { Accepted => other, result => result }, in the
\* arm `other` of the verifier's token: the scrutinee is the token, not result
SpjKeep(spj_result, other) ==
    IF spj_result = "Accepted" THEN other ELSE spj_result

\* Submission, without the source text, which no handler reads
NoSubmission ==
    [language |-> "", user_id |-> 0, contest_id |-> 0, problem_id |-> 0]

\* the arguments a handler passes to judge: id, submission, created_time,
\* updated_time; op is the handler, rule the query of a ranking request
\* the arguments of a ranking request: scoring_rule and tie_breaker
NoRule == [scoring_rule |-> <<>>, tie_breaker |-> <<>>]

\* the query of GET /jobs, a Filter (of its fields that are modelled)
NoQuery ==
    [user_name |-> <<>>, user_id |-> <<>>, contest_id |-> <<>>,
     problem_id |-> <<>>]

NoRequest ==
    [op |-> "none", id |-> 0, submission |-> NoSubmission,
     created_time |-> 0, updated_time |-> 0, rule |-> NoRule,
     query |-> NoQuery]

\* table users as database_init leaves it
RootUsers == <<[id |-> 0, name |-> "root"]>>

\* HttpResponse: the status, and code, reason and message of ErrorResponseBody
\* (the body of an Ok response to a job request is the Job, as stored; body
\* is the Vec<UsersRanking> of an Ok response to a ranking request)
Response(http_status, code, reason, message) ==
    [status |-> http_status, code |-> code, reason |-> reason,
     message |-> message, body |-> <<>>]

NoResponse == Response("none", 0, "", "")

\* the worker threads that handle requests at the same time
Workers == {"w1", "w2"}

\* what a worker holds of its handler: where it is (pc: "idle", "judge",
\* "cleanup", "store") and the arguments of its call of judge
IdleWorker ==
    [pc |-> "idle", op |-> "none", id |-> 0, created_time |-> 0,
     updated_time |-> 0]

\* the word game is not started: the server and judge know nothing of it
NotPlaying ==
    /\ current_game = <<>>
    /\ game_state = "Uninitialized"
    /\ config = <<>>
    /\ playing = FALSE

\* no worker handles a request, and temp/ is empty (main removes it)
NoJudgments ==
    /\ workers = [w \in Workers |-> IdleWorker]
    /\ temp = {}
    /\ NotPlaying

\* no request has been handled: the database is as database_init leaves it
NoRequests ==
    /\ jobs = <<>>
    /\ users = RootUsers
    /\ contests = <<>>
    /\ now = 0
    /\ request = NoRequest
    /\ response = NoResponse
    /\ NoJudgments

----------------------------------------------------------------------------
(* judge *)

Init ==
    /\ pc = "prepare"
    /\ problem \in Problem
    /\ result = "Accepted"
    /\ score = 0
    /\ case_results = <<>>
    /\ i = 0
    /\ answer = <<>>
    /\ output = <<>>
    /\ child = "none"
    /\ status = 0
    /\ elapsed = 0
    /\ run_time = 0
    /\ spj_success = FALSE
    /\ spj_stdout = <<>>
    /\ ret = "none"
    /\ NoRequests

\* the locals of one iteration of 'cases go out of scope
EndOfCase ==
    /\ answer' = <<>>
    /\ output' = <<>>
    /\ child' = "none"
    /\ status' = 0
    /\ elapsed' = 0
    /\ run_time' = 0
    /\ spj_success' = FALSE
    /\ spj_stdout' = <<>>

\* `?` on a failed step: judge returns Err and no Job; its locals are dropped
Fail ==
    /\ pc' = "done"
    /\ ret' = "err"
    /\ result' = "Accepted"
    /\ score' = 0
    /\ case_results' = <<>>
    /\ i' = 0
    /\ EndOfCase

\* mutant: the cases that were not run are marked Skipped
WaitingCases_Skipped(n) == [j \in 1..n |-> CaseResult(j, "Skipped", 0, <<>>)]

\* for j in 1..=problem.cases.len(): the cases left unexecuted
WaitingCases(n) == [j \in 1..n |-> CaseResult(j, "Waiting", 0, <<>>)]

\* what judge leaves alone of the state of the server: everything but temp/
database_vars == <<jobs, users, contests, now, request, response, workers>>

\* let temp_dir = format!("temp/{}", created_time.format(FORMAT)): the name
\* of the directory is the creation time, to the millisecond
TempDir(created_time) == created_time

\* temp_dir of the judgment in hand
temp_dir == TempDir(request.created_time)

\* create_dir_all, File::create, write_all: the directory is there from
\* create_dir_all on, also when a later step fails
Prepare ==
    /\ pc = "prepare"
    /\ \/ /\ pc' = "compile"
          /\ temp' = temp \cup {temp_dir}
          /\ UNCHANGED ret
          /\ UNCHANGED <<result, score, case_results, i, answer, output,
                         child, status, elapsed, run_time, spj_success,
                         spj_stdout>>
       \/ /\ Fail
          /\ temp' \in {temp, temp \cup {temp_dir}}
    /\ UNCHANGED <<problem, database_vars, wordle_vars>>

\* spawn the compiler, wait for it, collect its output, record the compile phase
Compile ==
    /\ pc = "compile"
    /\ \/ \E compile_time \in CompileTimes, success \in BOOLEAN, stderr \in Stderrs :
            IF ~success
            THEN /\ result' = "CompilationError"
                 /\ case_results' =
                        <<CaseResult(0, "CompilationError", compile_time, stderr)>>
                        \o WaitingCases(Len(problem.cases))
                 /\ pc' = "cleanup"
                 /\ UNCHANGED <<score, i, answer, output, child, status,
                                elapsed, run_time, spj_success, spj_stdout,
                                ret>>
            ELSE /\ case_results' =
                        <<CaseResult(0, "CompilationSuccess", compile_time, <<>>)>>
                 /\ pc' = "cases"
                 /\ UNCHANGED <<result, score, i, answer, output, child,
                                status, elapsed, run_time, spj_success,
                                spj_stdout, ret>>
       \/ Fail
    /\ UNCHANGED <<problem, server_vars, wordle_vars>>

\* head of the 'cases loop: open the input, create the output file, read the
\* answer, spawn the compiled program
CaseStart ==
    /\ pc = "cases"
    /\ i < Len(problem.cases)
    /\ \/ \E ans \in Files :
            /\ answer' = ans
            /\ child' = "running"
            /\ elapsed' = 0
            /\ pc' = "run"
            /\ UNCHANGED <<result, score, case_results, i, output, status,
                           run_time, spj_success, spj_stdout, ret>>
       \/ Fail
    /\ UNCHANGED <<problem, server_vars, wordle_vars>>

\* the wall clock advances while the supervisor polls
Tick ==
    /\ pc = "run"
    /\ elapsed < MaxTime
    /\ elapsed' = elapsed + 1
    /\ UNCHANGED <<wordle_vars, server_vars, pc, problem, result, score, case_results, i, answer, output,
                   child, status, run_time, spj_success, spj_stdout, ret>>

\* the submitted program exits
ChildExit ==
    /\ pc = "run"
    /\ child = "running"
    /\ child' = "exited"
    /\ \E st \in {0, 1}, out \in Files :
          /\ status' = st
          /\ output' = out
    /\ UNCHANGED <<wordle_vars, server_vars, pc, problem, result, score, case_results, i, answer,
                   elapsed, run_time, spj_success, spj_stdout, ret>>

\* mutant: the deadline is not tested, the supervisor only waits for the exit
Poll_WaitsForExit ==
    /\ pc = "run"
    /\ \/ /\ child = "exited"
          /\ pc' = "collect"
          /\ run_time' = elapsed
          /\ UNCHANGED <<result, score, case_results, i, answer, output,
                         child, status, elapsed, spj_success,
                         spj_stdout, ret>>
       \/ /\ child # "exited"
          /\ UNCHANGED <<pc, result, score, case_results, i, answer,
                         output, child, status, elapsed, run_time,
                         spj_success, spj_stdout, ret>>
       \/ Fail
    /\ UNCHANGED <<problem, server_vars, wordle_vars>>

\* mutant: a killed case is recorded with the time that really elapsed
Poll_RecordsElapsed ==
    /\ pc = "run"
    /\ LET case == problem.cases[i + 1] IN
       IF case.time_limit # 0 /\ elapsed > case.time_limit
       THEN \/ /\ result' = KeepFirst(result, "TimeLimitExceeded")
               /\ case_results' = Append(case_results,
                      CaseResult(i + 1, "TimeLimitExceeded", elapsed,
                                 <<"Time limit: ", ToString(case.time_limit)>>))
               /\ i' = i + 1
               /\ pc' = "cases"
               /\ EndOfCase
               /\ UNCHANGED <<score, ret>>
            \/ Fail
       ELSE \/ /\ child = "exited"
               /\ pc' = "collect"
               /\ run_time' = elapsed
               /\ UNCHANGED <<result, score, case_results, i, answer, output,
                              child, status, elapsed, spj_success,
                              spj_stdout, ret>>
            \/ /\ child # "exited"
               /\ UNCHANGED <<pc, result, score, case_results, i, answer,
                              output, child, status, elapsed, run_time, spj_success,
                                spj_stdout, ret>>
            \/ Fail
    /\ UNCHANGED <<problem, server_vars, wordle_vars>>

\* one iteration of 'run_time_measure.  run_time is read after the loop only:
\* the sample of an iteration that loops again is overwritten by the next one,
\* so the variable takes the sample of the iteration that leaves the loop.
Poll ==
    /\ pc = "run"
    /\ LET case == problem.cases[i + 1] IN
       IF case.time_limit # 0 /\ elapsed > case.time_limit
       THEN \/ /\ result' = KeepFirst(result, "TimeLimitExceeded")
               /\ case_results' = Append(case_results,
                      CaseResult(i + 1, "TimeLimitExceeded", case.time_limit,
                                 <<"Time limit: ", ToString(case.time_limit)>>))
               /\ i' = i + 1
               /\ pc' = "cases"
               /\ EndOfCase
               /\ UNCHANGED <<score, ret>>
            \/ Fail
       ELSE \/ /\ child = "exited"
               /\ pc' = "collect"
               /\ run_time' = elapsed
               /\ UNCHANGED <<result, score, case_results, i, answer, output,
                              child, status, elapsed, spj_success,
                              spj_stdout, ret>>
            \/ /\ child # "exited"
               /\ UNCHANGED <<pc, result, score, case_results, i, answer,
                              output, child, status, elapsed, run_time, spj_success,
                                spj_stdout, ret>>
            \/ Fail
    /\ UNCHANGED <<problem, server_vars, wordle_vars>>

\* mutant: after a case that is not Accepted the cases left are marked
\* Waiting and the loop is over
Record_StopsAtFailure(verdict, info) ==
    /\ case_results' =
           Append(case_results, CaseResult(i + 1, verdict, run_time, info))
           \o (IF verdict = "Accepted" THEN <<>>
               ELSE [j \in 1..(Len(problem.cases) - i - 1) |->
                        CaseResult(i + 1 + j, "Waiting", 0, <<>>)])
    /\ i' = IF verdict = "Accepted" THEN i + 1 ELSE Len(problem.cases)
    /\ pc' = "cases"
    /\ EndOfCase

\* mutant: the case index is pushed without the + 1
Record_IdOffByOne(verdict, info) ==
    /\ case_results' =
           Append(case_results, CaseResult(i, verdict, run_time, info))
    /\ i' = i + 1
    /\ pc' = "cases"
    /\ EndOfCase

\* push the case's result and go on with the next case
Record(verdict, info) ==
    /\ case_results' =
           Append(case_results, CaseResult(i + 1, verdict, run_time, info))
    /\ i' = i + 1
    /\ pc' = "cases"
    /\ EndOfCase

\* wait_with_output, read_to_string(output), from_utf8(stderr) fail
ClassifyFail ==
    /\ pc = "collect"
    /\ Fail
    /\ UNCHANGED <<problem, server_vars, wordle_vars>>

\* if !output.status.success()
ClassifyRuntimeError ==
    /\ pc = "collect"
    /\ status # 0
    /\ \E stderr \in Stderrs : Record("RuntimeError", stderr)
    /\ result' = KeepFirst(result, "RuntimeError")
    /\ UNCHANGED <<wordle_vars, server_vars, problem, score, ret>>

\* mutant: the running result is the verdict of the last case
TextResult_LastVerdict(cur, verdict) == verdict

\* the running result after a text case with this verdict
TextResult(cur, verdict) ==
    IF verdict = "Accepted" THEN cur ELSE KeepFirst(cur, "WrongAnswer")

\* mutant: the score weight is added whatever the verdict
TextScore_Always(cur, verdict, weight) == cur + weight

\* the running score after a text case with this verdict and score weight
TextScore(cur, verdict, weight) ==
    IF verdict = "Accepted" THEN cur + weight ELSE cur

\* ProblemType::Standard | ProblemType::DynamicRanking, ProblemType::Strict
ClassifyText ==
    /\ pc = "collect"
    /\ status = 0
    /\ problem.problem_type # "Spj"
    /\ LET stdout == output
           verdict == TextVerdict(problem.problem_type, stdout, answer)
       IN /\ Record(verdict, stdout)
          /\ score' = TextScore(score, verdict, problem.cases[i + 1].score)
          /\ result' = TextResult(result, verdict)
    /\ UNCHANGED <<wordle_vars, server_vars, problem, ret>>

\* ProblemType::Spj, Some(cmd): Command::new(&cmd[0]).args(args).output()?
SpjRun ==
    /\ pc = "collect"
    /\ status = 0
    /\ problem.problem_type = "Spj"
    /\ problem.special_judge
    /\ \/ /\ \E success \in BOOLEAN, out \in VerifierSamples :
                /\ spj_success' = success
                /\ spj_stdout' = out
          /\ pc' = "spj"
          /\ UNCHANGED <<result, score, case_results, i, answer, output,
                         child, status, elapsed, run_time, ret>>
       \/ Fail
    /\ UNCHANGED <<problem, server_vars, wordle_vars>>

\* ProblemType::Spj, None
SpjNone ==
    /\ pc = "collect"
    /\ status = 0
    /\ problem.problem_type = "Spj"
    /\ ~problem.special_judge
    /\ Record("SpjError", <<"Special judge command not found">>)
    /\ UNCHANGED <<wordle_vars, server_vars, problem, result, score, ret>>

\* ProblemType::Spj, Some(cmd): the verifier has run; read its two lines
SpjClassify ==
    /\ pc = "spj"
    /\ LET stdout == SpjLines(spj_stdout) IN
       IF ~spj_success
       THEN /\ result' = KeepFirst(result, "SpjError")
            /\ Record("SpjError",
                      <<"Error occurred while calling the special judger">>)
            /\ UNCHANGED score
       ELSE IF Len(stdout) # 2
       THEN /\ result' = KeepFirst(result, "SpjError")
            /\ Record("SpjError", <<"Invalid special judge output.">>)
            /\ UNCHANGED score
       ELSE LET spj_result == ParseResult(stdout[1]) IN
            IF spj_result = "Err"
            THEN /\ Record("SpjError", <<"Invalid special judge output.">>)
                 /\ UNCHANGED <<result, score>>
            ELSE IF spj_result = "Accepted"
            THEN /\ score' = score + problem.cases[i + 1].score
                 /\ Record("Accepted", stdout[2])
                 /\ UNCHANGED result
            ELSE /\ result' = SpjKeep(spj_result, spj_result)
                 /\ Record(spj_result, stdout[2])
                 /\ UNCHANGED score
    /\ UNCHANGED <<wordle_vars, server_vars, problem, ret>>

Classify ==
    \/ ClassifyFail
    \/ ClassifyRuntimeError
    \/ ClassifyText
    \/ SpjRun
    \/ SpjNone
    \/ SpjClassify

\* fs::remove_dir_all(&temp_dir)?; Ok(Job { .. state: Finished, result, score,
\* cases: case_results })
Cleanup ==
    /\ \/ pc = "cleanup"
       \/ pc = "cases" /\ i = Len(problem.cases)
    /\ \/ /\ pc' = "done"
          /\ ret' = "job"
          /\ temp' = temp \ {temp_dir}
          /\ UNCHANGED <<result, score, case_results, i, answer, output,
                         child, status, elapsed, run_time, spj_success,
                         spj_stdout>>
       \/ /\ Fail
          /\ UNCHANGED temp
    /\ UNCHANGED <<problem, database_vars, wordle_vars>>

Next ==
    \/ Prepare
    \/ Compile
    \/ CaseStart
    \/ Tick
    \/ ChildExit
    \/ Poll
    \/ Classify
    \/ Cleanup

Spec == Init /\ [][Next]_vars

\* a step of judge itself that does not fail
JudgeStep ==
    /\ Prepare \/ Compile \/ CaseStart \/ Poll \/ Classify \/ Cleanup
    /\ ret' # "err"

\* judge is a sequential function on a thread that keeps running, and the
\* clock advances: a step of judge that can be taken without failing is
\* taken or fails, and time goes on while a case runs.  Nothing makes the
\* submitted program exit.
Fairness == WF_vars(Tick) /\ WF_vars(JudgeStep)

\* judge on the problems judged on the texts whose cases all have a time
\* limit: no arm of ProblemType::Spj is entered
InitDeadlines ==
    /\ Init
    /\ problem.problem_type # "Spj"
    /\ \A k \in 1..Len(problem.cases) : problem.cases[k].time_limit # 0

NextDeadlines ==
    \/ Prepare
    \/ Compile
    \/ CaseStart
    \/ Tick
    \/ ChildExit
    \/ Poll
    \/ ClassifyFail
    \/ ClassifyRuntimeError
    \/ ClassifyText
    \/ Cleanup

SpecDeadlines == InitDeadlines /\ [][NextDeadlines]_vars /\ Fairness

----------------------------------------------------------------------------
(* The text arm of judge on every pair of texts: one case that exited 0 *)

InitText ==
    /\ pc = "collect"
    /\ problem \in {p \in Problem :
                      p.problem_type # "Spj" /\ Len(p.cases) = 1}
    /\ result = "Accepted"
    /\ score = 0
    /\ case_results = <<CaseResult(0, "CompilationSuccess", 0, <<>>)>>
    /\ i = 0
    /\ answer \in Texts
    /\ output \in Texts
    /\ child = "exited"
    /\ status = 0
    /\ elapsed = 0
    /\ run_time = 0
    /\ spj_success = FALSE
    /\ spj_stdout = <<>>
    /\ ret = "none"
    /\ NoRequests

NextText == ClassifyText

SpecText == InitText /\ [][NextText]_vars

----------------------------------------------------------------------------
(* The pipeline, entered also right after the verifier has run on the      *)
(* first case of an Spj problem, with every verifier output up to          *)
(* MaxVerLen symbols                                                       *)

InitSpj ==
    /\ pc = "spj"
    /\ problem \in {p \in Problem :
                      /\ p.problem_type = "Spj"
                      /\ p.special_judge
                      /\ Len(p.cases) = 1}
    /\ result = "Accepted"
    /\ score = 0
    /\ case_results = <<CaseResult(0, "CompilationSuccess", 0, <<>>)>>
    /\ i = 0
    /\ answer \in Files
    /\ output \in Files
    /\ child = "exited"
    /\ status = 0
    /\ elapsed = 0
    /\ run_time = 0
    /\ spj_success \in BOOLEAN
    /\ spj_stdout \in VerifierOutputs
    /\ ret = "none"
    /\ NoRequests

SpecSpj == (Init \/ InitSpj) /\ [][Next]_vars

----------------------------------------------------------------------------
(* The handlers of POST /jobs and PUT /jobs/{jobId}.  A handler runs up to  *)
(* its call of judge, judge runs, and the handler stores the returned Job.  *)

\* Option<T>
None == <<>>
Some(v) == <<v>>

\* config.languages (by name) and config.problems
Languages == {"Rust"}

\* (misc.dynamic_ranking_ratio is an f32: <<1, 2>> is 0.5)
ConfigProblems ==
    <<[id |-> 1, problem_type |-> "Standard", special_judge |-> FALSE,
       dynamic_ranking_ratio |-> None,
       cases |-> <<[score |-> Weight(1), time_limit |-> 1]>>],
      [id |-> 2, problem_type |-> "DynamicRanking", special_judge |-> FALSE,
       dynamic_ranking_ratio |-> Some(<<1, 2>>),
       cases |-> <<[score |-> Weight(1), time_limit |-> 0]>>],
      [id |-> 3, problem_type |-> "Spj", special_judge |-> TRUE,
       dynamic_ranking_ratio |-> None,
       cases |-> <<[score |-> Weight(1), time_limit |-> 0]>>],
      [id |-> 4, problem_type |-> "Spj", special_judge |-> FALSE,
       dynamic_ranking_ratio |-> None,
       cases |-> <<[score |-> Weight(1), time_limit |-> 0]>>]>>

ProblemIds == {ConfigProblems[k].id : k \in 1..Len(ConfigProblems)}

\* config.problems.iter().find(|problem| problem.id == submission.problem_id)
FindProblem(problem_id) ==
    LET p == ConfigProblems[CHOOSE k \in 1..Len(ConfigProblems) :
                                ConfigProblems[k].id = problem_id]
    IN [problem_type |-> p.problem_type, special_judge |-> p.special_judge,
        cases |-> p.cases]

\* the ids of table users
UserIds == {users[k].id : k \in 1..Len(users)}

\* table contests after one POST /contests: ids are SQLite row ids, from 1
PostedContests ==
    <<[id |-> 1, from |-> 1, to |-> 2, problem_ids |-> <<1>>,
       user_ids |-> <<0>>, submission_limit |-> 1]>>

\* the submissions posted: every combination of a stored and a missing user,
\* of practice, the contest and a missing contest, and of two problems, and
\* one submission each with a missing language and a missing problem
Submissions ==
    [language : Languages,
     user_id : {0, 1},
     contest_id : {0, 1, 2},
     problem_id : {1, 2}]
    \cup {[language |-> "Cobol", user_id |-> 0, contest_id |-> 1,
           problem_id |-> 1],
          [language |-> "Rust", user_id |-> 0, contest_id |-> 1,
           problem_id |-> 5]}

\* Vec::contains
Contains(vec, x) == \E k \in 1..Len(vec) : vec[k] = x

\* Contest::select_by_id, Job::select_by_id: select_all, then find
SelectById(table, id) ==
    LET found == SelectSeq(table, LAMBDA row : row.id = id)
    IN IF found = <<>> THEN None ELSE Some(found[1])

\* Filter::apply on a filter with user_id, contest_id and problem_id, the
\* fields the handlers set; every other field is None
FilterApply(filter, table) ==
    LET ok(job) ==
            /\ filter.user_id # None =>
                  ~(job.submission.user_id # filter.user_id[1])
            /\ filter.contest_id # None =>
                  ~(/\ job.submission.contest_id # filter.contest_id[1]
                    /\ job.submission.contest_id # 0)
            /\ filter.problem_id # None =>
                  ~(job.submission.problem_id # filter.problem_id[1])
    IN SelectSeq(table, ok)

\* internal_error(e): the message carries e.to_string()
InternalError(e) == Response("InternalServerError", 6, "ERR_INTERNAL", e)
JudgeError == "Internal error: {judge}"
DatabaseError == "Internal error: {database}"
Ok == Response("Ok", 0, "", "")
Pass == Response("pass", 0, "", "")

\* mutant: the user of the submission is not looked up
CheckUser_AnyUser(submission) == Pass

\* match User::select_by_id(submission.user_id)
CheckUser(submission) ==
    IF submission.user_id \notin UserIds
    THEN Response("NotFound", 3, "ERR_NOT_FOUND", "User {} not found.")
    ELSE Pass

\* the contest-related checks of post_jobs, for the contest of the submission
CheckContest(submission, created_time, contest) ==
    IF ~Contains(contest.problem_ids, submission.problem_id)
    THEN Response("BadRequest", 1, "ERR_INVALID_ARGUMENT",
                  "Contest {} does not contains problem {}.")
    ELSE IF ~Contains(contest.user_ids, submission.user_id)
    THEN Response("BadRequest", 1, "ERR_INVALID_ARGUMENT",
                  "Contest {} does not contains user {}.")
    ELSE IF created_time < contest.from \/ created_time > contest.to
    THEN Response("BadRequest", 1, "ERR_INVALID_ARGUMENT",
                  "Contest {} is not open now")
    ELSE IF Len(FilterApply([user_id |-> Some(submission.user_id),
                             contest_id |-> Some(contest.id),
                             problem_id |-> Some(submission.problem_id)],
                            jobs))
            = contest.submission_limit
    THEN Response("BadRequest", 4, "ERR_RATE_LIMIT", "Submission limit reached")
    ELSE CheckUser(submission)

\* "Checks the request" of post_jobs: the response that rejects the
\* submission, or Pass
CheckRequest(submission, created_time) ==
    IF submission.language \notin Languages
    THEN Response("NotFound", 3, "ERR_NOT_FOUND", "Language {} not supported.")
    ELSE IF submission.problem_id \notin ProblemIds
    THEN Response("NotFound", 3, "ERR_NOT_FOUND", "Problem {} not found.")
    ELSE LET contest == SelectById(contests, submission.contest_id) IN
         IF contest # None
         THEN CheckContest(submission, created_time, contest[1])
         ELSE IF submission.contest_id # 0
         THEN Response("NotFound", 3, "ERR_NOT_FOUND", "Contest {} not found.")
         ELSE CheckUser(submission)

\* the locals of judge, which the handlers do not touch
judge_locals == <<result, score, case_results, i, answer, output, child,
                  status, elapsed, run_time, spj_success, spj_stdout, ret>>

\* post_jobs up to its call of judge: created_time, the checks, Job::count.
\* An Err of the database (oj_try!) is answered with internal_error.
PostJobs ==
    /\ pc = "idle"
    /\ Len(jobs) < MaxJobs
    /\ \E submission \in Submissions :
          LET created_time == now
              checked == CheckRequest(submission, created_time)
          IN /\ request' = [op |-> "post", id |-> Len(jobs),
                            submission |-> submission,
                            created_time |-> created_time,
                            updated_time |-> created_time,
                            rule |-> NoRule,
                            query |-> NoQuery]
             /\ \/ /\ checked # Pass
                   /\ response' = checked
                   /\ UNCHANGED <<pc, problem>>
                \/ /\ submission.language \in Languages
                   /\ submission.problem_id \in ProblemIds
                   /\ response' = InternalError(DatabaseError)
                   /\ UNCHANGED <<pc, problem>>
                \/ /\ checked = Pass
                   /\ response' = NoResponse
                   /\ problem' = FindProblem(submission.problem_id)
                   /\ pc' = "prepare"
    /\ UNCHANGED <<jobs, users, contests, now>>
    /\ UNCHANGED judge_locals
    /\ UNCHANGED <<worker_vars, wordle_vars>>

\* put_jobs_by_id up to its call of judge: the original job, updated_time
PutJobsById ==
    /\ pc = "idle"
    /\ \E id \in 0..MaxJobs :
          LET original_job == SelectById(jobs, id) IN
          \/ /\ original_job = None
             /\ request' = [NoRequest EXCEPT !.op = "put", !.id = id]
             /\ response' = Response("NotFound", 3, "ERR_NOT_FOUND",
                                     "Job {} not found.")
             /\ UNCHANGED <<pc, problem>>
          \/ /\ request' = [NoRequest EXCEPT !.op = "put", !.id = id]
             /\ response' = InternalError(DatabaseError)
             /\ UNCHANGED <<pc, problem>>
          \/ /\ original_job # None
             /\ request' = [op |-> "put", id |-> id,
                            submission |-> original_job[1].submission,
                            created_time |-> original_job[1].created_time,
                            updated_time |-> now,
                            rule |-> NoRule,
                            query |-> NoQuery]
             /\ response' = NoResponse
             /\ problem' = FindProblem(original_job[1].submission.problem_id)
             /\ pc' = "prepare"
    /\ UNCHANGED <<jobs, users, contests, now>>
    /\ UNCHANGED judge_locals
    /\ UNCHANGED <<worker_vars, wordle_vars>>

\* mutant: only a job whose cases were all run is returned as Finished
ReturnedJob_FinishedIfRun ==
    [id |-> request.id,
     created_time |-> request.created_time,
     updated_time |-> request.updated_time,
     submission |-> request.submission,
     state |-> IF result = "CompilationError" THEN "Canceled" ELSE "Finished",
     result |-> result,
     score |-> score,
     cases |-> case_results]

\* Ok(Job { id, created_time, updated_time, submission, state: Finished,
\* result, score, cases: case_results }), once judge is done with ret = "job"
ReturnedJob ==
    [id |-> request.id,
     created_time |-> request.created_time,
     updated_time |-> request.updated_time,
     submission |-> request.submission,
     state |-> "Finished",
     result |-> result,
     score |-> score,
     cases |-> case_results]

\* Job::insert
Insert(table, job) == Append(table, job)

\* mutant: the UPDATE has no WHERE clause
Update_EveryRow(table, job) == [k \in 1..Len(table) |-> job]

\* Job::update: UPDATE jobs SET .. WHERE id = job.id
Update(table, job) ==
    [k \in 1..Len(table) |-> IF table[k].id = job.id THEN job ELSE table[k]]

\* the handler is left: the Job and the locals of judge are dropped
Return ==
    /\ pc' = "idle"
    /\ ret' = "none"
    /\ result' = "Accepted"
    /\ score' = 0
    /\ case_results' = <<>>
    /\ i' = 0
    /\ UNCHANGED <<problem, answer, output, child, status, elapsed, run_time,
                   spj_success, spj_stdout>>

\* mutant: the Job judge returned before its error is stored all the same
StoreJob_DespiteErr(op) ==
    /\ pc = "done"
    /\ request.op = op
    /\ \/ /\ jobs' = IF op = "post" THEN Insert(jobs, ReturnedJob)
                     ELSE Update(jobs, ReturnedJob)
          /\ response' = IF ret = "err" THEN InternalError(JudgeError) ELSE Ok
       \/ /\ response' = InternalError(DatabaseError)
          /\ UNCHANGED jobs
    /\ Return
    /\ UNCHANGED <<users, contests, now, request, workers, temp, wordle_vars>>

\* let job = oj_try!(judge(..)); oj_try!(job.insert(&pool)) or
\* oj_try!(job.update(&pool)); HttpResponse::Ok()
StoreJob(op) ==
    /\ pc = "done"
    /\ request.op = op
    /\ IF ret = "err"
       THEN /\ response' = InternalError(JudgeError)
            /\ UNCHANGED jobs
       ELSE \/ /\ jobs' = IF op = "post" THEN Insert(jobs, ReturnedJob)
                        ELSE Update(jobs, ReturnedJob)
               /\ response' = Ok
            \/ /\ response' = InternalError(DatabaseError)
               /\ UNCHANGED jobs
    /\ Return
    /\ UNCHANGED <<users, contests, now, request, workers, temp, wordle_vars>>

PostJobsStore == StoreJob("post")

PutJobsByIdStore == StoreJob("put")

\* Utc::now() advances
Clock ==
    /\ now < MaxNow
    /\ now' = now + 1
    /\ UNCHANGED <<pc, problem, jobs, users, contests, request, response>>
    /\ UNCHANGED judge_locals
    /\ UNCHANGED <<worker_vars, wordle_vars>>

----------------------------------------------------------------------------
(* The server, handling one request after the other, with judge taken as   *)
(* one step                                                                *)

RECURSIVE TotalScore(_)
TotalScore(cases) ==
    IF cases = <<>> THEN 0 ELSE cases[1].score + TotalScore(Tail(cases))

\* the Job judge returns when the compiler failed
CompilationErrorJob(p) ==
    [result |-> "CompilationError", score |-> 0, i |-> 0,
     cases |-> <<CaseResult(0, "CompilationError", 0, <<>>)>>
               \o WaitingCases(Len(p.cases))]

\* the Job judge returns when every case was accepted, each at the first
\* sample of the clock
AcceptedJob(p) ==
    [result |-> "Accepted", score |-> TotalScore(p.cases), i |-> Len(p.cases),
     cases |-> <<CaseResult(0, "CompilationSuccess", 0, <<>>)>>
               \o [k \in 1..Len(p.cases) |-> CaseResult(k, "Accepted", 0, <<>>)]]

\* judge, from its call to its return, on a program that has become correct:
\* the Job with every case accepted, or Err
Judge ==
    /\ pc = "prepare"
    /\ \/ LET job == AcceptedJob(problem) IN
             /\ pc' = "done"
             /\ ret' = "job"
             /\ result' = job.result
             /\ score' = job.score
             /\ case_results' = job.cases
             /\ i' = job.i
             /\ UNCHANGED <<answer, output, child, status, elapsed, run_time,
                            spj_success, spj_stdout>>
       \/ Fail
    /\ UNCHANGED <<problem, server_vars, wordle_vars>>

\* a stored job of the root user, judged at created_time with the compiler
\* failing
StoredJob(id, created_time, contest_id, problem_id) ==
    LET job == CompilationErrorJob(FindProblem(problem_id)) IN
    [id |-> id,
     created_time |-> created_time,
     updated_time |-> created_time,
     submission |-> [language |-> "Rust", user_id |-> 0,
                     contest_id |-> contest_id, problem_id |-> problem_id],
     state |-> "Finished",
     result |-> job.result,
     score |-> job.score,
     cases |-> job.cases]

\* judge has not been called
Idle ==
    /\ pc = "idle"
    /\ problem = FindProblem(1)
    /\ result = "Accepted"
    /\ score = 0
    /\ case_results = <<>>
    /\ i = 0
    /\ answer = <<>>
    /\ output = <<>>
    /\ child = "none"
    /\ status = 0
    /\ elapsed = 0
    /\ run_time = 0
    /\ spj_success = FALSE
    /\ spj_stdout = <<>>
    /\ ret = "none"

(* POST /jobs, from the start of the server with one contest posted *)

InitServer ==
    /\ Idle
    /\ jobs = <<>>
    /\ users = RootUsers
    /\ contests = PostedContests
    /\ now = 0
    /\ request = NoRequest
    /\ response = NoResponse
    /\ NoJudgments

NextServer ==
    \/ PostJobs
    \/ PostJobsStore
    \/ Judge
    \/ Clock

SpecServer == InitServer /\ [][NextServer]_vars

(* PUT /jobs/{jobId}, on two stored jobs whose compilation had failed *)

InitPut ==
    /\ Idle
    /\ jobs = <<StoredJob(0, 0, 0, 1), StoredJob(1, 0, 0, 2)>>
    /\ users = RootUsers
    /\ contests = <<>>
    /\ now = 0
    /\ request = NoRequest
    /\ response = NoResponse
    /\ NoJudgments

NextPut ==
    \/ PutJobsById
    \/ PutJobsByIdStore
    \/ Judge
    \/ Clock

SpecPut == InitPut /\ [][NextPut]_vars

(* One request with the stages of judge as steps: the handler has called   *)
(* judge for a new submission or for the rejudge of the stored job         *)

InitRequest ==
    /\ pc = "prepare"
    /\ result = "Accepted"
    /\ score = 0
    /\ case_results = <<>>
    /\ i = 0
    /\ answer = <<>>
    /\ output = <<>>
    /\ child = "none"
    /\ status = 0
    /\ elapsed = 0
    /\ run_time = 0
    /\ spj_success = FALSE
    /\ spj_stdout = <<>>
    /\ ret = "none"
    /\ users = RootUsers
    /\ contests = <<>>
    /\ now = 1
    /\ jobs \in {<<StoredJob(0, 0, 0, problem_id)>> : problem_id \in ProblemIds}
    /\ request \in
          {[op |-> "post", id |-> Len(jobs),
            submission |-> [language |-> "Rust", user_id |-> 0,
                            contest_id |-> 0, problem_id |-> problem_id],
            created_time |-> now, updated_time |-> now,
            rule |-> NoRule, query |-> NoQuery] :
              problem_id \in ProblemIds}
          \cup {[op |-> "put", id |-> jobs[1].id,
                 submission |-> jobs[1].submission,
                 created_time |-> jobs[1].created_time,
                 updated_time |-> now,
                 rule |-> NoRule,
                 query |-> NoQuery]}
    /\ problem = FindProblem(request.submission.problem_id)
    /\ response = NoResponse
    /\ NoJudgments

NextRequest ==
    \/ Prepare
    \/ Compile
    \/ CaseStart
    \/ Tick
    \/ ChildExit
    \/ Poll
    \/ Classify
    \/ Cleanup
    \/ PostJobsStore
    \/ PutJobsByIdStore

SpecRequest == InitRequest /\ [][NextRequest]_vars

----------------------------------------------------------------------------
(* The handler of GET /contests/{contestId}/ranklist *)

\* f32, exactly: <<n, d>> is n / d, <<1, 0>> is inf and <<0, 0>> is NaN (no
\* value of the handler is negative; rounding is not modelled)
RECURSIVE Gcd(_, _)
Gcd(a, b) == IF b = 0 THEN a ELSE Gcd(b, a % b)

F32(n, d) ==
    IF d = 0 THEN <<IF n = 0 THEN 0 ELSE 1, 0>>
    ELSE <<n \div Gcd(n, d), d \div Gcd(n, d)>>

NaN == F32(0, 0)
IsNaN(x) == x = NaN

\* n as f32
AsF32(n) == F32(n, 1)

\* x + y
FAdd(x, y) ==
    IF IsNaN(x) \/ IsNaN(y) THEN NaN
    ELSE IF x[2] = 0 \/ y[2] = 0 THEN F32(1, 0)
    ELSE F32(x[1] * y[2] + y[1] * x[2], x[2] * y[2])

\* x * y: inf * 0.0 is NaN
FMul(x, y) == F32(x[1] * y[1], x[2] * y[2])

\* x / y: 0.0 / 0.0 is NaN, x / 0.0 is inf
FDiv(x, y) == F32(x[1] * y[2], x[2] * y[1])

\* 1.0 - x, for x in [0, 1]
OneMinus(x) == F32(x[2] - x[1], x[2])

\* f32::partial_cmp: None on NaN
PartialCmp(x, y) ==
    IF IsNaN(x) \/ IsNaN(y) THEN "None"
    ELSE IF x[1] * y[2] < y[1] * x[2] THEN "Less"
    ELSE IF x[1] * y[2] = y[1] * x[2] THEN "Equal"
    ELSE "Greater"

\* Ord::cmp on integers and times, Ordering::reverse
Cmp(a, b) == IF a < b THEN "Less" ELSE IF a = b THEN "Equal" ELSE "Greater"

ReverseOrdering(ordering) ==
    IF ordering = "Less" THEN "Greater"
    ELSE IF ordering = "Greater" THEN "Less"
    ELSE ordering

\* times as the handler compares them: MIN_UTC below, MAX_UTC above every
\* created_time
MinUtc == 0
Utc(time) == time + 1
MaxUtc == MaxNow + 2

\* RankingRule
ScoringRules == {"latest", "highest"}
TieBreakers == {"submission_time", "submission_count", "user_id"}
RankingRules ==
    [scoring_rule : {None} \cup {Some(r) : r \in ScoringRules},
     tie_breaker : {None} \cup {Some(t) : t \in TieBreakers}]

\* Iterator::max_by and max_by_key, keys[k] being the key of vec[k]: the
\* last of the greatest elements, None on an empty iterator
MaxBy(vec, keys) ==
    IF vec = <<>> THEN None
    ELSE Some(vec[CHOOSE k \in 1..Len(vec) :
                    /\ \A m \in 1..Len(vec) : keys[m] <= keys[k]
                    /\ \A m \in (k + 1)..Len(vec) : keys[m] < keys[k]])

\* filtered_jobs.iter().max_by_key(|job| *job.created_time)
LatestJob(filtered_jobs) ==
    MaxBy(filtered_jobs,
          [k \in 1..Len(filtered_jobs) |-> filtered_jobs[k].created_time])

\* filtered_jobs.iter().max_by(|l, r| l.score.partial_cmp(&r.score).unwrap())
HighestJob(filtered_jobs) ==
    MaxBy(filtered_jobs,
          [k \in 1..Len(filtered_jobs) |-> filtered_jobs[k].score])

\* mutant: the scoring rule is ignored
SelectJob_AlwaysLatest(filtered_jobs, rule) == LatestJob(filtered_jobs)

\* match rule.scoring_rule.unwrap_or(ScoringRule::Latest)
SelectJob(filtered_jobs, rule) ==
    IF rule.scoring_rule = Some("highest") THEN HighestJob(filtered_jobs)
    ELSE LatestJob(filtered_jobs)

\* all_accepted_jobs.iter().map(|job| job.cases[i + 1].time).min().unwrap()
MinTime(all_accepted_jobs, c) ==
    LET times == {all_accepted_jobs[k].cases[c].time :
                    k \in 1..Len(all_accepted_jobs)}
    IN CHOOSE t \in times : \A u \in times : t <= u

\* score after the first n iterations of "Calculates the score of each case
\* dynamically"; case i of the loop is entry i + 2 of job.cases here
RECURSIVE DynamicScore(_, _, _, _, _)
DynamicScore(cases, job, all_accepted_jobs, ratio, n) ==
    IF n = 0 THEN AsF32(0)
    ELSE FAdd(DynamicScore(cases, job, all_accepted_jobs, ratio, n - 1),
              FAdd(FMul(FMul(FDiv(AsF32(cases[n].score),
                                  AsF32(job.cases[n + 1].time)),
                             AsF32(MinTime(all_accepted_jobs, n + 1))),
                        ratio),
                   FMul(AsF32(cases[n].score), OneMinus(ratio))))

\* config.problems.iter().find(|problem| problem.id == *problem_id).unwrap()
RankedProblem(problem_id) ==
    ConfigProblems[CHOOSE k \in 1..Len(ConfigProblems) :
                     ConfigProblems[k].id = problem_id]

\* filtered_jobs of one user and one problem
FilteredJobs(table, user_id, id, problem_id) ==
    FilterApply([user_id |-> Some(user_id), contest_id |-> Some(id),
                 problem_id |-> Some(problem_id)], table)

\* the job the handler selects for one user and one problem (an Option), and
\* the score it pushes
ProblemScore(table, user_id, id, problem_id, rule) ==
    LET filtered_jobs == FilteredJobs(table, user_id, id, problem_id)
        ranked == RankedProblem(problem_id)
        ratio == ranked.dynamic_ranking_ratio[1]
        accepted_jobs ==
            SelectSeq(filtered_jobs, LAMBDA job : job.result = "Accepted")
        all_accepted_jobs ==
            FilterApply([user_id |-> None, contest_id |-> Some(id),
                         problem_id |-> Some(problem_id)], table)
        selected == SelectJob(filtered_jobs, rule)
    IN IF ranked.problem_type = "DynamicRanking"
       THEN IF Len(accepted_jobs) = 0
            THEN [job |-> selected,
                  score |-> IF selected = None THEN AsF32(0)
                            ELSE FMul(AsF32(selected[1].score),
                                      OneMinus(ratio))]
            ELSE [job |-> LatestJob(filtered_jobs),
                  score |-> DynamicScore(ranked.cases,
                                         LatestJob(filtered_jobs)[1],
                                         all_accepted_jobs, ratio,
                                         Len(ranked.cases))]
       ELSE [job |-> selected,
             score |-> IF selected = None THEN AsF32(0)
                       ELSE AsF32(selected[1].score)]

\* max_time and submission_count after the first n problems
RECURSIVE MaxTimeAfter(_, _, _, _, _, _)
MaxTimeAfter(table, user_id, id, problem_ids, rule, n) ==
    IF n = 0 THEN MinUtc
    ELSE LET max_time ==
                 MaxTimeAfter(table, user_id, id, problem_ids, rule, n - 1)
             job == ProblemScore(table, user_id, id, problem_ids[n], rule).job
         IN IF job # None /\ Utc(job[1].created_time) > max_time
            THEN Utc(job[1].created_time)
            ELSE max_time

RECURSIVE SubmissionCount(_, _, _, _, _)
SubmissionCount(table, user_id, id, problem_ids, n) ==
    IF n = 0 THEN 0
    ELSE SubmissionCount(table, user_id, id, problem_ids, n - 1)
         + Len(FilteredJobs(table, user_id, id, problem_ids[n]))

\* the UsersRanking pushed for one user (max_time and submission_count are
\* not serialized)
UsersRanking(table, user_id, id, problem_ids, rule) ==
    LET n == Len(problem_ids)
        submission_count == SubmissionCount(table, user_id, id, problem_ids, n)
    IN [user |-> SelectById(users, user_id)[1],
        rank |-> 0,
        scores |-> [m \in 1..n |->
                      ProblemScore(table, user_id, id, problem_ids[m],
                                   rule).score],
        max_time |-> IF submission_count = 0 THEN MaxUtc
                     ELSE MaxTimeAfter(table, user_id, id, problem_ids, rule,
                                       n),
        submission_count |-> submission_count]

\* scores.iter().fold(0.0, |acc, s| acc + s), on the first n scores
RECURSIVE Fold(_, _)
Fold(scores, n) ==
    IF n = 0 THEN AsF32(0) ELSE FAdd(Fold(scores, n - 1), scores[n])

TotalOf(ranking) == Fold(ranking.scores, Len(ranking.scores))

\* mutant: equal totals are ordered by user id under every tie-breaker
Compare_IgnoresTieBreaker(l, r, rule) ==
    IF PartialCmp(TotalOf(l), TotalOf(r)) # "Equal"
    THEN PartialCmp(TotalOf(l), TotalOf(r))
    ELSE ReverseOrdering(Cmp(l.user.id, r.user.id))

\* the closure of sort_by; "None" is the panic of unwrap
Compare(l, r, rule) ==
    LET by_score == PartialCmp(TotalOf(l), TotalOf(r))
        by_id == ReverseOrdering(Cmp(l.user.id, r.user.id))
        by_time == ReverseOrdering(Cmp(l.max_time, r.max_time))
        by_count ==
            ReverseOrdering(Cmp(l.submission_count, r.submission_count))
    IN IF by_score # "Equal" THEN by_score
       ELSE IF rule.tie_breaker = Some("submission_time") /\ by_time # "Equal"
       THEN by_time
       ELSE IF rule.tie_breaker = Some("submission_count")
               /\ by_count # "Equal"
       THEN by_count
       ELSE by_id

\* slice::sort_by, a stable sort, by insertion
RECURSIVE SortBy(_, _)
SortBy(vec, rule) ==
    IF vec = <<>> THEN <<>>
    ELSE LET sorted == SortBy(SubSeq(vec, 1, Len(vec) - 1), rule)
             x == vec[Len(vec)]
             k == Cardinality({m \in 1..Len(sorted) :
                                 Compare(sorted[m], x, rule) # "Greater"})
         IN SubSeq(sorted, 1, k) \o <<x>> \o SubSeq(sorted, k + 1, Len(sorted))

\* slice::reverse
Reverse(vec) == [k \in 1..Len(vec) |-> vec[Len(vec) + 1 - k]]

\* the test of the rank loop for rows i and i + 1 to share a rank
SameRank(l, r, rule) ==
    /\ PartialCmp(TotalOf(l), TotalOf(r)) = "Equal"
    /\ rule.tie_breaker = Some("submission_time") => l.max_time = r.max_time
    /\ rule.tie_breaker = Some("submission_count") =>
          l.submission_count = r.submission_count
    /\ rule.tie_breaker = Some("user_id") => l.user.id = r.user.id

\* mutant: a new group takes the rank after that of the group before it
RECURSIVE AssignRanks_Dense(_, _, _)
AssignRanks_Dense(usersranking, rule, n) ==
    IF n = 0 THEN usersranking
    ELSE LET before == AssignRanks_Dense(usersranking, rule, n - 1)
             rank == IF before[n].rank = 0 THEN n ELSE before[n].rank
         IN [before EXCEPT
               ![n].rank = rank,
               ![n + 1].rank = IF SameRank(before[n], before[n + 1], rule)
                               THEN rank ELSE rank + 1]

\* usersranking after the first n iterations of "Assigns the rank of each
\* user"; row i of the loop is entry i + 1 here
RECURSIVE AssignRanks(_, _, _)
AssignRanks(usersranking, rule, n) ==
    IF n = 0 THEN usersranking
    ELSE LET before == AssignRanks(usersranking, rule, n - 1)
             rank == IF before[n].rank = 0 THEN n ELSE before[n].rank
         IN [before EXCEPT
               ![n].rank = rank,
               ![n + 1].rank = IF SameRank(before[n], before[n + 1], rule)
                               THEN rank ELSE n + 1]

\* the handler panicked: no response is sent
Panic == Response("panic", 0, "", "")

\* user_ids and problem_ids of the handler: those of the contest, or every
\* user and every problem for id 0
RankedUserIds(id) ==
    LET contest == SelectById(contests, id) IN
    IF contest # None THEN contest[1].user_ids
    ELSE [k \in 1..Len(users) |-> k - 1]

RankedProblemIds(id) ==
    LET contest == SelectById(contests, id) IN
    IF contest # None THEN contest[1].problem_ids
    ELSE [k \in 1..Len(ConfigProblems) |-> ConfigProblems[k].id]

\* the response of get_contests_ranklist on table jobs being table
Ranklist(table, id, rule) ==
    LET user_ids == RankedUserIds(id)
        problem_ids == RankedProblemIds(id)
        pushed == [k \in 1..Len(user_ids) |->
                     UsersRanking(table, user_ids[k], id, problem_ids, rule)]
        usersranking == Reverse(SortBy(pushed, rule))
    IN IF SelectById(contests, id) = None /\ id # 0
       THEN Response("NotFound", 3, "ERR_NOT_FOUND", "Contest {} not found.")
       ELSE IF /\ user_ids # <<>>
               /\ \E m \in 1..Len(problem_ids) :
                     /\ RankedProblem(problem_ids[m]).problem_type
                           = "DynamicRanking"
                     /\ RankedProblem(problem_ids[m]).dynamic_ranking_ratio
                           = None
       THEN Response("BadRequest", 1, "ERR_INVALID_ARGUMENT",
                     "Dynamic ranking ratio of problem {} not found.")
       ELSE IF Len(pushed) >= 2 /\ \E k \in 1..Len(pushed) :
                                      IsNaN(TotalOf(pushed[k]))
       THEN Panic
       ELSE IF Len(pushed) = 0
       THEN Panic
       ELSE [Ok EXCEPT
               !.body = IF Len(usersranking) = 1
                        THEN [usersranking EXCEPT ![1].rank = 1]
                        ELSE AssignRanks(usersranking, rule,
                                         Len(usersranking) - 1)]

\* get_contests_ranklist, called with request.id as path and request.rule as
\* query; an Err of the database (oj_try!) is answered with internal_error
GetContestsRanklist ==
    /\ pc = "idle"
    /\ request.op = "ranklist"
    /\ response = NoResponse
    /\ \/ response' = Ranklist(jobs, request.id, request.rule)
       \/ response' = InternalError(DatabaseError)
    /\ UNCHANGED <<pc, problem, jobs, users, contests, now, request>>
    /\ UNCHANGED judge_locals
    /\ UNCHANGED <<worker_vars, wordle_vars>>

(* GET /contests/{contestId}/ranklist called with every rule on every store *)
(* of up to MaxJobs jobs of two of three users, posted one per millisecond  *)
(* to a contest or for practice                                             *)

\* the jobs stored: user, contest, problem, result and the time of the case
RankedSubmissions ==
    {[user_id |-> 0, contest_id |-> 1, problem_id |-> 2,
      result |-> "Accepted", time |-> 1],
     [user_id |-> 0, contest_id |-> 1, problem_id |-> 2,
      result |-> "WrongAnswer", time |-> 2],
     [user_id |-> 0, contest_id |-> 1, problem_id |-> 2,
      result |-> "CompilationError", time |-> 0],
     [user_id |-> 0, contest_id |-> 0, problem_id |-> 2,
      result |-> "Accepted", time |-> 2],
     [user_id |-> 1, contest_id |-> 1, problem_id |-> 2,
      result |-> "Accepted", time |-> 2],
     [user_id |-> 1, contest_id |-> 1, problem_id |-> 1,
      result |-> "Accepted", time |-> 1],
     [user_id |-> 1, contest_id |-> 1, problem_id |-> 1,
      result |-> "WrongAnswer", time |-> 1]}

\* the Job stored for a submission: what judge returned for it
RankedJob(id, s) ==
    LET p == FindProblem(s.problem_id) IN
    [id |-> id,
     created_time |-> id,
     updated_time |-> id,
     submission |-> [language |-> "Rust", user_id |-> s.user_id,
                     contest_id |-> s.contest_id, problem_id |-> s.problem_id],
     state |-> "Finished",
     result |-> s.result,
     score |-> IF s.result = "Accepted" THEN TotalScore(p.cases) ELSE 0,
     cases |-> IF s.result = "CompilationError"
               THEN CompilationErrorJob(p).cases
               ELSE <<CaseResult(0, "CompilationSuccess", 0, <<>>)>>
                    \o [k \in 1..Len(p.cases) |->
                          CaseResult(k, s.result, s.time, <<>>)]]

RankedStores ==
    UNION {{[k \in 1..n |-> RankedJob(k - 1, posted[k])] :
              posted \in [1..n -> RankedSubmissions]} : n \in 0..MaxJobs}

\* table contests after three POST /contests, all open from 0 to MaxNow, the
\* last one without users
RankedContests ==
    <<[id |-> 1, from |-> 0, to |-> MaxNow, problem_ids |-> <<1, 2>>,
       user_ids |-> <<0, 1, 2>>, submission_limit |-> MaxJobs + 1],
      [id |-> 2, from |-> 0, to |-> MaxNow, problem_ids |-> <<1>>,
       user_ids |-> <<1>>, submission_limit |-> MaxJobs + 1],
      [id |-> 3, from |-> 0, to |-> MaxNow, problem_ids |-> <<1>>,
       user_ids |-> <<>>, submission_limit |-> MaxJobs + 1]>>

\* the contest ids requested: all users (0), the contests, a missing contest
RankedContestIds == {0, 1, 2, 3, 4}

InitRank ==
    /\ Idle
    /\ jobs \in RankedStores
    /\ users = RootUsers \o <<[id |-> 1, name |-> "user1"],
                              [id |-> 2, name |-> "user2"]>>
    /\ contests = RankedContests
    /\ now = MaxNow
    /\ request \in {[NoRequest EXCEPT !.op = "ranklist", !.id = id,
                                      !.rule = rule] :
                       id \in RankedContestIds, rule \in RankingRules}
    /\ response = NoResponse
    /\ NoJudgments

NextRank == GetContestsRanklist

SpecRank == InitRank /\ [][NextRank]_vars

----------------------------------------------------------------------------
(* Requests handled at the same time.  HttpServer runs one worker thread   *)
(* per core and takes no lock around a handler; judge blocks its worker    *)
(* from its call to its return.  A judgment is taken in three steps: the   *)
(* handler up to the creation of the workspace, the compilation and the    *)
(* cases, and the removal of the workspace; then the handler stores.  The  *)
(* only failures taken here are those one worker causes to another, and    *)
(* those of the database.                                                  *)

\* what the handlers on the workers leave alone; response is the response
\* sent last, by any worker
one_request_vars == <<pc, problem, request, users, contests, wordle_vars>>

\* the Job of worker w once judge has returned it (the verdict is left out:
\* that of a compilation error of problem 1 stands for it)
WorkerJob(w) ==
    [StoredJob(workers[w].id, workers[w].created_time, 0, 1)
        EXCEPT !.updated_time = workers[w].updated_time]

\* worker w calls judge with these arguments: create_dir_all makes the
\* directory unless it exists, File::create makes or truncates the source
CallJudge(w, op, id, created_time, updated_time) ==
    /\ workers' = [workers EXCEPT
                     ![w] = [pc |-> "judge", op |-> op, id |-> id,
                             created_time |-> created_time,
                             updated_time |-> updated_time]]
    /\ temp' = temp \cup {TempDir(created_time)}

\* post_jobs of a valid practice submission on worker w, up to the workspace
\* (a submission that is rejected is PostJobs)
WorkerPostJobs(w) ==
    /\ workers[w].pc = "idle"
    /\ Len(jobs) < MaxJobs
    /\ CallJudge(w, "post", Len(jobs), now, now)
    /\ UNCHANGED <<jobs, now, response>>
    /\ UNCHANGED one_request_vars
    /\ UNCHANGED judge_locals

\* put_jobs_by_id on worker w, up to the workspace
WorkerPutJobsById(w) ==
    /\ workers[w].pc = "idle"
    /\ \E id \in 0..MaxJobs :
          LET original_job == SelectById(jobs, id) IN
          IF original_job = None
          THEN /\ response' = Response("NotFound", 3, "ERR_NOT_FOUND",
                                       "Job {} not found.")
               /\ UNCHANGED <<workers, temp>>
          ELSE /\ CallJudge(w, "put", id, original_job[1].created_time, now)
               /\ UNCHANGED response
    /\ UNCHANGED <<jobs, now>>
    /\ UNCHANGED one_request_vars
    /\ UNCHANGED judge_locals

\* the compilation and the cases of the judgment of worker w, in its
\* workspace
WorkerJudge(w) ==
    /\ workers[w].pc = "judge"
    /\ workers' = [workers EXCEPT ![w].pc = "cleanup"]
    /\ UNCHANGED <<jobs, now, temp, response>>
    /\ UNCHANGED one_request_vars
    /\ UNCHANGED judge_locals

\* fs::remove_dir_all(&temp_dir)? of worker w, an Err if the directory is
\* gone: judge returns the Job, or the Err, which oj_try! answers with
\* internal_error
WorkerCleanup(w) ==
    /\ workers[w].pc = "cleanup"
    /\ IF TempDir(workers[w].created_time) \in temp
       THEN /\ temp' = temp \ {TempDir(workers[w].created_time)}
            /\ workers' = [workers EXCEPT ![w].pc = "store"]
            /\ UNCHANGED response
       ELSE /\ workers' = [workers EXCEPT ![w] = IdleWorker]
            /\ response' = InternalError(JudgeError)
            /\ UNCHANGED temp
    /\ UNCHANGED <<jobs, now>>
    /\ UNCHANGED one_request_vars
    /\ UNCHANGED judge_locals

\* job.insert or job.update on worker w, and the response; id is the primary
\* key of table jobs, so that a second insert of an id fails
WorkerStore(w) ==
    /\ workers[w].pc = "store"
    /\ workers' = [workers EXCEPT ![w] = IdleWorker]
    /\ \/ /\ workers[w].op = "post"
          /\ SelectById(jobs, workers[w].id) = None
          /\ jobs' = Insert(jobs, WorkerJob(w))
          /\ response' = Ok
       \/ /\ workers[w].op = "put"
          /\ jobs' = Update(jobs, WorkerJob(w))
          /\ response' = Ok
       \/ /\ response' = InternalError(DatabaseError)
          /\ UNCHANGED jobs
    /\ UNCHANGED <<now, temp>>
    /\ UNCHANGED one_request_vars
    /\ UNCHANGED judge_locals

InitWorkers ==
    /\ Idle
    /\ NoRequests

NextWorkers ==
    \/ \E w \in Workers : WorkerPostJobs(w)
    \/ \E w \in Workers : WorkerPutJobsById(w)
    \/ \E w \in Workers : WorkerJudge(w)
    \/ \E w \in Workers : WorkerCleanup(w)
    \/ \E w \in Workers : WorkerStore(w)
    \/ Clock

SpecWorkers == InitWorkers /\ [][NextWorkers]_vars

----------------------------------------------------------------------------
(* POST /users, and the start of the server on the database file the last  *)
(* run left (oj.db is kept unless --flush-data is given)                   *)

\* the names posted
UserNames == {"root", "alice", "bob"}

\* User::select_by_name
SelectByName(table, name) ==
    LET found == SelectSeq(table, LAMBDA row : row.name = name)
    IN IF found = <<>> THEN None ELSE Some(found[1])

\* User::insert: INSERT INTO users (id, name), the id given or User::count;
\* id is the primary key of the table, an id that is taken is an Err (None;
\* Some(table) is the table after the insert)
UserInsert(table, id, name) ==
    LET key == IF id = None THEN Len(table) ELSE id[1] IN
    IF \E k \in 1..Len(table) : table[k].id = key
    THEN None
    ELSE Some(Append(table, [id |-> key, name |-> name]))

\* User::update: UPDATE users SET name = ?1 WHERE id = ?2
UserUpdate(table, id, name) ==
    [k \in 1..Len(table) |->
        IF table[k].id = id THEN [table[k] EXCEPT !.name = name] ELSE table[k]]

UserResponse(user) == [Ok EXCEPT !.body = <<user>>]

\* post_users: a name that is taken is refused; with an id the user of that
\* id is renamed, or 404; without an id a user is inserted
PostUsers ==
    /\ pc = "idle"
    /\ \E id \in {None} \cup {Some(n) : n \in 0..MaxUsers}, name \in UserNames :
          IF SelectByName(users, name) # None
          THEN /\ response' = Response("BadRequest", 1, "ERR_INVALID_ARGUMENT",
                                       "User name '{}' already exists.")
               /\ UNCHANGED users
          ELSE IF id # None
          THEN IF SelectById(users, id[1]) # None
               THEN \/ /\ users' = UserUpdate(users, id[1], name)
                       /\ response' =
                              UserResponse([id |-> id[1], name |-> name])
                    \/ /\ response' = InternalError(DatabaseError)
                       /\ UNCHANGED users
               ELSE /\ response' = Response("NotFound", 3, "ERR_NOT_FOUND",
                                            "User {} not found.")
                    /\ UNCHANGED users
          ELSE /\ Len(users) < MaxUsers
               /\ \/ /\ UserInsert(users, None, name) # None
                     /\ users' = UserInsert(users, None, name)[1]
                     /\ response' =
                            UserResponse(SelectByName(users', name)[1])
                  \/ /\ response' = InternalError(DatabaseError)
                     /\ UNCHANGED users
    /\ request' = [NoRequest EXCEPT !.op = "users"]
    /\ UNCHANGED <<pc, problem, jobs, contests, now>>
    /\ UNCHANGED judge_locals
    /\ UNCHANGED <<worker_vars, wordle_vars>>

\* main from its start to database_init(&pool).unwrap(): the tables are
\* those of oj.db, empty if the file was removed (--flush-data); the root
\* user is inserted with id 0 unless a user named "root" is found.  When
\* the insert fails database_init returns the Err, unwrap panics and the
\* process is down (pc = "down").
DatabaseInit ==
    /\ pc \in {"idle", "down"}
    /\ \E flush_data \in BOOLEAN :
          LET table == IF flush_data THEN <<>> ELSE users IN
          /\ jobs' = IF flush_data THEN <<>> ELSE jobs
          /\ contests' = IF flush_data THEN <<>> ELSE contests
          /\ IF SelectByName(table, "root") # None
             THEN /\ users' = table
                  /\ pc' = "idle"
             ELSE IF UserInsert(table, Some(0), "root") # None
             THEN /\ users' = UserInsert(table, Some(0), "root")[1]
                  /\ pc' = "idle"
             ELSE /\ users' = table
                  /\ pc' = "down"
    /\ request' = [NoRequest EXCEPT !.op = "start"]
    /\ response' = NoResponse
    /\ UNCHANGED <<problem, now>>
    /\ UNCHANGED judge_locals
    /\ UNCHANGED <<worker_vars, wordle_vars>>

\* Filter::apply with user_name set: a job of another user than the one of
\* that name is dropped; Ok(None) => {} when no user has the name
FilterApplyUserName(filter, table) ==
    LET ok(job) ==
            filter.user_name # None =>
               LET user == SelectByName(users, filter.user_name[1]) IN
               user # None => ~(job.submission.user_id # user[1].id)
    IN SelectSeq(FilterApply(filter, table), ok)

\* the names asked for
QueriedNames == UserNames \cup {"carol"}

\* get_jobs: query.apply(&pool), the jobs as the body
GetJobs ==
    /\ pc = "idle"
    /\ \E name \in QueriedNames :
          LET query == [NoQuery EXCEPT !.user_name = Some(name)] IN
          /\ request' = [NoRequest EXCEPT !.op = "jobs", !.query = query]
          /\ \/ response' =
                   [Ok EXCEPT !.body = FilterApplyUserName(query, jobs)]
             \/ response' = InternalError(DatabaseError)
    /\ UNCHANGED <<pc, problem, jobs, users, contests, now>>
    /\ UNCHANGED judge_locals
    /\ UNCHANGED <<worker_vars, wordle_vars>>

\* the database after the first start and one practice submission of root
InitUsers ==
    /\ Idle
    /\ jobs = <<StoredJob(0, 0, 0, 1)>>
    /\ users = RootUsers
    /\ contests = <<>>
    /\ now = 0
    /\ request = NoRequest
    /\ response = NoResponse
    /\ NoJudgments

NextUsers ==
    \/ PostUsers
    \/ DatabaseInit
    \/ GetJobs

SpecUsers == InitUsers /\ [][NextUsers]_vars

----------------------------------------------------------------------------
(* The word game (wordle-tbd21): src/wordle-tbd21/src/game.rs.  A word is   *)
(* a sequence of letters, a letter a string of one character.  The console *)
(* loop takes one step per guess read, the window one step per event.      *)

\* LETTERS, of which the words below use these
LETTERS == {"A", "E", "L", "S"}

EASEL == <<"E", "A", "S", "E", "L">>
LEASE == <<"L", "E", "A", "S", "E">>
SALSA == <<"S", "A", "L", "S", "A">>
SEALS == <<"S", "E", "A", "L", "S">>

\* the word lists the program is started with
Finals == {EASEL, LEASE}
Acceptables == {EASEL, LEASE, SALSA}

\* what the player types: a word of the list, one in lower case, one that
\* is not in the list, one that is too short
TypedGuesses == Acceptables \cup {<<"e", "a", "s", "e", "l">>, SEALS, <<"E">>}

\* char::to_ascii_uppercase on the letters typed
CharToAsciiUppercase(c) ==
    CASE c = "a" -> "A"
      [] c = "e" -> "E"
      [] c = "l" -> "L"
      [] c = "s" -> "S"
      [] OTHER -> c

ToAsciiUppercase(word) == [k \in 1..Len(word) |-> CharToAsciiUppercase(word[k])]

\* answer.chars().filter(|c| *c == letter).count()
CountOf(word, letter) == Cardinality({k \in 1..Len(word) : word[k] = letter})

\* answer.chars().position(|c| c == letter).unwrap()  (1-based here)
PositionOf(word, letter) ==
    CHOOSE k \in 1..Len(word) :
        /\ word[k] = letter
        /\ \A m \in 1..(k - 1) : word[m] # letter

\* Game::new
NewGame(answer_word) ==
    LET upper == ToAsciiUppercase(answer_word) IN
    [answer |-> upper,
     guesses |-> <<>>,
     guesses_status |-> <<>>,
     letters_status |-> [c \in LETTERS |-> "X"],
     answer_count |-> [c \in {upper[k] : k \in 1..Len(upper)} |-> CountOf(upper, c)]]

\* the marks of accept_guess while it runs: the keyboard, let mut counter
\* and let mut guess_status
Marks(game) ==
    [letters_status |-> game.letters_status,
     counter |-> game.answer_count,
     guess_status |-> [j \in 1..5 |-> "X"]]

\* "Judges whether the player's guess is valid when in difficult mode"
DifficultAllows(game, guess) ==
    \A k \in 1..Len(game.answer) :
        LET letter == game.answer[k] IN
        ~ \/ /\ game.letters_status[letter] = "G"
             /\ guess[PositionOf(game.answer, letter)] # letter
          \/ /\ game.letters_status[letter] = "Y"
             /\ ~Contains(guess, letter)

\* "Marks all correct letters": the body of the first loop, at position j
MarkCorrectLetter(marks, game_answer, letter, j) ==
    IF game_answer[j] = letter
    THEN [letters_status |-> [marks.letters_status EXCEPT ![letter] = "G"],
          counter |-> [marks.counter EXCEPT ![letter] = @ - 1],
          guess_status |-> [marks.guess_status EXCEPT ![j] = "G"]]
    ELSE marks

RECURSIVE MarkCorrect(_, _, _, _)
MarkCorrect(marks, game_answer, guess, j) ==
    IF j > Len(guess) THEN marks
    ELSE MarkCorrect(MarkCorrectLetter(marks, game_answer, guess[j], j),
                     game_answer, guess, j + 1)

\* the second loop with a red mark that overwrites the status of the key
MarkRestLetter_RedOverwrites(marks, game_answer, letter, j) ==
    IF marks.guess_status[j] = "G" THEN marks
    ELSE IF Contains(game_answer, letter) /\ marks.counter[letter] > 0
    THEN [letters_status |->
              IF marks.letters_status[letter] \in {"X", "R"}
              THEN [marks.letters_status EXCEPT ![letter] = "Y"]
              ELSE marks.letters_status,
          counter |-> [marks.counter EXCEPT ![letter] = @ - 1],
          guess_status |-> [marks.guess_status EXCEPT ![j] = "Y"]]
    ELSE [letters_status |-> [marks.letters_status EXCEPT ![letter] = "R"],
          counter |-> marks.counter,
          guess_status |-> [marks.guess_status EXCEPT ![j] = "R"]]

\* "Marks the rest of the letters": the body of the second loop, at
\* position j
MarkRestLetter(marks, game_answer, letter, j) ==
    IF marks.guess_status[j] = "G" THEN marks
    ELSE IF Contains(game_answer, letter) /\ marks.counter[letter] > 0
    THEN [letters_status |->
              IF marks.letters_status[letter] \in {"X", "R"}
              THEN [marks.letters_status EXCEPT ![letter] = "Y"]
              ELSE marks.letters_status,
          counter |-> [marks.counter EXCEPT ![letter] = @ - 1],
          guess_status |-> [marks.guess_status EXCEPT ![j] = "Y"]]
    ELSE [letters_status |->
              IF marks.letters_status[letter] = "X"
              THEN [marks.letters_status EXCEPT ![letter] = "R"]
              ELSE marks.letters_status,
          counter |-> marks.counter,
          guess_status |-> [marks.guess_status EXCEPT ![j] = "R"]]

RECURSIVE MarkRest(_, _, _, _)
MarkRest(marks, game_answer, guess, j) ==
    IF j > Len(guess) THEN marks
    ELSE MarkRest(MarkRestLetter(marks, game_answer, guess[j], j),
                  game_answer, guess, j + 1)

\* "Decides the game state"
DecideGameState(game) ==
    IF game.guesses[Len(game.guesses)] = game.answer THEN "Won"
    ELSE IF Len(game.guesses) = 6 THEN "Lost"
    ELSE "Continue"

\* "Stores the result"
StoreGuess(game, guess, marks) ==
    [game EXCEPT !.guesses = Append(@, guess),
                 !.guesses_status = Append(@, marks.guess_status),
                 !.letters_status = marks.letters_status]

\* Game::accept_guess: the game it leaves and the GameState it returns
AcceptGuess(game, typed, acceptables, is_difficult) ==
    LET guess == ToAsciiUppercase(typed) IN
    IF guess \notin acceptables
    THEN [game |-> game, state |-> "InvalidInput"]
    ELSE IF is_difficult /\ ~DifficultAllows(game, guess)
    THEN [game |-> game, state |-> "InvalidInput"]
    ELSE LET marks == MarkRest(MarkCorrect(Marks(game), game.answer, guess, 1),
                               game.answer, guess, 1)
             stored == StoreGuess(game, guess, marks)
         IN  [game |-> stored, state |-> DecideGameState(stored)]

\* Wordle::new: a window that waits for its configuration, or the console
\* loop on its first game
WordleNew ==
    /\ config \in [gui : BOOLEAN, difficult : BOOLEAN]
    /\ current_game \in {NewGame(word) : word \in Finals}
    /\ game_state = IF config.gui THEN "Uninitialized" ELSE "Continue"
    /\ playing = TRUE

\* one pass of the loop of guesses of run_no_gui: the guess read, and after
\* the last guess of a game the answer to "Do you want to play once more?"
RunNoGui ==
    /\ playing
    /\ ~config.gui
    /\ \E typed \in TypedGuesses, want_to_continue \in BOOLEAN, word \in Finals :
          LET accepted == AcceptGuess(current_game, typed, Acceptables,
                                      config.difficult) IN
          IF accepted.state \in {"Won", "Lost"}
          THEN IF want_to_continue
               THEN /\ current_game' = NewGame(word)
                    /\ UNCHANGED playing
               ELSE /\ current_game' = accepted.game
                    /\ playing' = FALSE
          ELSE /\ current_game' = accepted.game
               /\ UNCHANGED playing
    /\ UNCHANGED <<game_state, config>>
    /\ UNCHANGED <<pc, problem, judge_locals, server_vars>>

\* Wordle::accept_current_guess, called by left_panel when Enter is pressed
\* in the input area; the panels are disabled only while the game is
\* Uninitialized
AcceptCurrentGuess ==
    /\ playing
    /\ config.gui
    /\ game_state # "Uninitialized"
    /\ Len(current_game.guesses) < MaxGuesses
    /\ \E typed \in TypedGuesses :
          LET accepted == AcceptGuess(current_game, typed, Acceptables,
                                      config.difficult) IN
          /\ current_game' = accepted.game
          /\ game_state' = accepted.state
    /\ UNCHANGED <<config, playing>>
    /\ UNCHANGED <<pc, problem, judge_locals, server_vars>>

\* Wordle::update, "Operations after the windows are closed": the window
\* that tells the end of the game
CloseGameOverInfo ==
    /\ playing
    /\ config.gui
    /\ game_state \in {"Won", "Lost"}
    /\ game_state' = "Continue"
    /\ \E word \in Finals : current_game' = NewGame(word)
    /\ UNCHANGED <<config, playing>>
    /\ UNCHANGED <<pc, problem, judge_locals, server_vars>>

\* the window that tells an invalid input
CloseErrorInfo ==
    /\ playing
    /\ config.gui
    /\ game_state = "InvalidInput"
    /\ game_state' = "Continue"
    /\ UNCHANGED <<current_game, config, playing>>
    /\ UNCHANGED <<pc, problem, judge_locals, server_vars>>

\* the window of the configuration, with its check box
CloseConfig ==
    /\ playing
    /\ config.gui
    /\ game_state = "Uninitialized"
    /\ game_state' = "Continue"
    /\ \E difficult \in BOOLEAN : config' = [config EXCEPT !.difficult = difficult]
    /\ UNCHANGED <<current_game, playing>>
    /\ UNCHANGED <<pc, problem, judge_locals, server_vars>>

\* the game starts; the server, another program, handles no request
InitWordle ==
    /\ WordleNew
    /\ Idle
    /\ jobs = <<>>
    /\ users = <<>>
    /\ contests = <<>>
    /\ now = 0
    /\ request = NoRequest
    /\ response = NoResponse
    /\ workers = [w \in Workers |-> IdleWorker]
    /\ temp = {}

NextWordle ==
    \/ RunNoGui
    \/ AcceptCurrentGuess
    \/ CloseGameOverInfo
    \/ CloseErrorInfo
    \/ CloseConfig

SpecWordle == InitWordle /\ [][NextWordle]_vars

----------------------------------------------------------------------------
(* Properties *)

\* the test cases of a job are case_results[2..], case k at index k + 1
TestCaseIndexes == 2..Len(case_results)

LastCase(results) == results[Len(results)]

\* a step of the 'cases loop that records the verdict of one test case
RecordsCase == Len(case_results) >= 1 /\ Len(case_results') = Len(case_results) + 1

\* lines of a text as the specification reads them: the pieces between line
\* breaks, each with its surrounding white space removed
LineBreaks(s) == {k \in 1..Len(s) : s[k] = "\n"}

BreakAt(s, j) ==
    IF j = 0 THEN 0
    ELSE IF j > Cardinality(LineBreaks(s)) THEN Len(s) + 1
    ELSE CHOOSE p \in LineBreaks(s) :
            Cardinality({q \in LineBreaks(s) : q < p}) = j - 1

Stripped(l) ==
    LET black == {k \in 1..Len(l) : l[k] \notin {" ", "\n"}} IN
    IF black = {} THEN <<>>
    ELSE SubSeq(l, CHOOSE k \in black : \A m \in black : k <= m,
                   CHOOSE k \in black : \A m \in black : k >= m)

StrippedLines(s) ==
    [j \in 1..(Cardinality(LineBreaks(s)) + 1) |->
        Stripped(SubSeq(s, BreakAt(s, j - 1) + 1, BreakAt(s, j) - 1))]

NonEmptyLines(s) == SelectSeq(StrippedLines(s), LAMBDA l : l # <<>>)

IsResultName(l) == Len(l) = 1 /\ l[1] \in DOMAIN ResultNames

\* C1: every Job returned by judge has 1 + len(problem.cases) case results,
\* and entry k (counted from 0) has id k, whatever the outcome.
C1_CaseResultCount ==
    ret = "job" =>
        /\ Len(case_results) = 1 + Len(problem.cases)
        /\ \A k \in 1..Len(case_results) : case_results[k].id = k - 1

C1_Witness ==
    /\ ret = "job"
    /\ Len(problem.cases) = 2
    /\ case_results[1].result = "CompilationSuccess"
    /\ case_results[2].result = "TimeLimitExceeded"
    /\ case_results[3].result = "RuntimeError"

\* C2: when the compile phase is recorded as anything but a success, no test
\* case is executed, cases[0] is CompilationError, every test case is Waiting
\* with time 0, the overall result is CompilationError and the score is 0;
\* this is also the Job that is returned.
C2_CompilationError ==
    (Len(case_results) >= 1 /\ case_results[1].result # "CompilationSuccess") =>
        /\ case_results[1].result = "CompilationError"
        /\ Len(case_results) = 1 + Len(problem.cases)
        /\ \A k \in TestCaseIndexes :
              case_results[k].result = "Waiting" /\ case_results[k].time = 0
        /\ result = "CompilationError"
        /\ score = 0
        /\ i = 0
        /\ child = "none"
        /\ pc \in {"cleanup", "done"}

C2_Witness ==
    /\ ret = "job"
    /\ Len(problem.cases) = 2
    /\ case_results[1].result = "CompilationError"
    /\ case_results[3].result = "Waiting"

\* C3: while a job is judged (judge has not returned an error), no step takes
\* the running overall result from a non-Accepted value to Accepted.
C3_NeverBackToAccepted ==
    [][(result # "Accepted" /\ ret' # "err") => result' # "Accepted"]_vars

C3_Witness ==
    /\ ret = "job"
    /\ Len(problem.cases) = 2
    /\ case_results[2].result = "WrongAnswer"
    /\ case_results[3].result = "Accepted"
    /\ result = "WrongAnswer"

\* verdict of the lowest-indexed test case recorded so far that is not Accepted
FailedCases == {k \in TestCaseIndexes : case_results[k].result # "Accepted"}

FirstFailure ==
    case_results[CHOOSE k \in FailedCases : \A m \in FailedCases : k <= m].result

\* C4: first failure wins: when the overall result is the verdict of the
\* lowest-indexed failing test case and a later test case fails too, whatever
\* its verdict (a result token of the external verifier included), the overall
\* result stays the verdict of the lowest-indexed failing case.
C4_FirstFailureWins ==
    [][(/\ RecordsCase
        /\ case_results[1].result = "CompilationSuccess"
        /\ FailedCases # {}
        /\ result = FirstFailure
        /\ LastCase(case_results').result # "Accepted")
       => result' = FirstFailure]_vars

\* C5: a finished Job whose overall result is Accepted has every test case
\* verdicted Accepted.
C5_AcceptedMeansAllAccepted ==
    (ret = "job" /\ result = "Accepted") =>
        \A k \in TestCaseIndexes : case_results[k].result = "Accepted"

\* sum of the score weights of the first n cases that were verdicted Accepted
RECURSIVE AcceptedSum(_)
AcceptedSum(n) ==
    IF n = 0 THEN 0
    ELSE AcceptedSum(n - 1)
         + (IF case_results[n + 1].result = "Accepted"
            THEN problem.cases[n].score ELSE 0)

\* C6: the score of every Job returned by judge is the sum of case.score over
\* exactly the test cases verdicted Accepted, in every problem mode.
C6_ScoreIsSumOfAccepted ==
    ret = "job" => score = AcceptedSum(Len(problem.cases))

C6_Witness ==
    /\ ret = "job"
    /\ problem.problem_type = "DynamicRanking"
    /\ Len(problem.cases) = 2
    /\ problem.cases[1].score = 1
    /\ problem.cases[2].score = 2
    /\ case_results[2].result = "WrongAnswer"
    /\ case_results[3].result = "Accepted"
    /\ score = 2

\* C7: in Standard and DynamicRanking mode a case that exited 0 is Accepted
\* only if output and answer, split on line breaks and trimmed per line, have
\* the same number of lines and match on every line.
C7_AcceptedOnlyIfLinesMatch ==
    [][(/\ pc = "collect"
        /\ problem.problem_type \in {"Standard", "DynamicRanking"}
        /\ RecordsCase
        /\ LastCase(case_results').result = "Accepted")
       => StrippedLines(output) = StrippedLines(answer)]_vars

\* C8: in Strict mode a case that exited 0 is Accepted if the output is
\* identical to the answer, and WrongAnswer otherwise.
C8_StrictIsExact ==
    [][(pc = "collect" /\ problem.problem_type = "Strict" /\ RecordsCase)
       => LastCase(case_results').result =
             (IF output = answer THEN "Accepted" ELSE "WrongAnswer")]_vars

C8_Witness ==
    /\ pc = "cases"
    /\ problem.problem_type = "Strict"
    /\ Len(case_results) = 2
    /\ case_results[2].result = "WrongAnswer"
    /\ case_results[2].info = <<"a", "\n">>

\* the four failure modes of the verifier, for the case being classified
VerifierFailure ==
    \/ /\ pc = "collect"
       /\ status = 0
       /\ problem.problem_type = "Spj"
       /\ ~problem.special_judge
    \/ /\ pc = "spj"
       /\ \/ ~spj_success
          \/ Len(NonEmptyLines(spj_stdout)) # 2
          \/ ~IsResultName(NonEmptyLines(spj_stdout)[1])

\* C9: in ExternalVerifier mode each failure mode (non-zero exit, not exactly
\* two non-empty trimmed lines, unrecognized line 1, command absent) gives the
\* case the verdict SpjError with no score, and judge goes on with the next
\* case instead of returning.
C9_VerifierFailureIsSpjError ==
    [][(VerifierFailure /\ ret' # "err") =>
          /\ RecordsCase
          /\ LastCase(case_results').result = "SpjError"
          /\ LastCase(case_results').id = i + 1
          /\ score' = score
          /\ pc' = "cases"
          /\ i' = i + 1
          /\ ret' = "none"]_vars

C9_Witness ==
    /\ ret = "job"
    /\ Len(problem.cases) = 2
    /\ case_results[2].result = "SpjError"
    /\ case_results[2].info = <<"Invalid special judge output.">>
    /\ case_results[3].result = "Accepted"
    /\ score = problem.cases[2].score

\* C10: in ExternalVerifier mode, when the verifier exits 0 and its output has
\* exactly two non-empty trimmed lines, the first a result name T, the case
\* verdict is T, the case info is line 2, and the case's score weight is added
\* to the score if and only if T = Accepted.
C10_VerifierVerdict ==
    [][(/\ pc = "spj"
        /\ spj_success
        /\ Len(NonEmptyLines(spj_stdout)) = 2
        /\ IsResultName(NonEmptyLines(spj_stdout)[1]))
       => LET lines == NonEmptyLines(spj_stdout)
              T == ResultNames[lines[1][1]]
          IN /\ RecordsCase
             /\ LastCase(case_results').result = T
             /\ LastCase(case_results').info = lines[2]
             /\ score' = IF T = "Accepted"
                         THEN score + problem.cases[i + 1].score
                         ELSE score]_vars

C10_Witness ==
    /\ pc = "cases"
    /\ problem.problem_type = "Spj"
    /\ Len(case_results) = 2
    /\ case_results[2].result = "WrongAnswer"
    /\ case_results[2].info = <<"Accepted">>
    /\ score = 0

\* C11: per test case the non-zero exit is checked before the deadline: once
\* the child has exited with a non-zero status, the verdict recorded for the
\* case is RuntimeError, also when the elapsed time has crossed the time limit
\* by the moment the supervisor observes it.
C11_ExitStatusBeforeDeadline ==
    [][(pc = "run" /\ child = "exited" /\ status # 0 /\ RecordsCase)
       => LastCase(case_results').result = "RuntimeError"]_vars

\* the elapsed time has crossed the non-zero time limit of the running case
DeadlineCrossed ==
    /\ pc = "run"
    /\ problem.cases[i + 1].time_limit # 0
    /\ elapsed > problem.cases[i + 1].time_limit

\* C12: when the supervisor observes that the elapsed time has crossed a
\* non-zero time limit, the child is gone before anything is recorded, the case
\* is recorded as TimeLimitExceeded with time equal to the configured limit,
\* whatever the child's exit status and output, and judge goes on with the
\* next case; nothing is recorded when the kill fails.
C12_DeadlineKill ==
    [][(DeadlineCrossed /\ pc' # pc) =>
          IF ret' = "err" THEN case_results' = <<>>
          ELSE /\ RecordsCase
               /\ LastCase(case_results').result = "TimeLimitExceeded"
               /\ LastCase(case_results').time = problem.cases[i + 1].time_limit
               /\ LastCase(case_results').id = i + 1
               /\ child' = "none"
               /\ score' = score
               /\ pc' = "cases"
               /\ i' = i + 1]_vars

C12_Witness ==
    /\ pc = "cases"
    /\ Len(problem.cases) = 2
    /\ problem.cases[1].time_limit = 1
    /\ Len(case_results) = 2
    /\ case_results[2].result = "TimeLimitExceeded"
    /\ case_results[2].time = 1
    /\ i = 1

\* C15: cleanup is best-effort: once compilation and all cases are classified,
\* judge returns the assembled Job with its result, score and cases, whether
\* or not the removal of the workspace directory succeeds.
C15_CleanupBestEffort ==
    [][((pc = "cleanup" \/ (pc = "cases" /\ i = Len(problem.cases)))
        /\ pc' = "done")
       => /\ ret' = "job"
          /\ result' = result
          /\ score' = score
          /\ case_results' = case_results]_vars

\* rows of the jobs table with this id
RowsWithId(table, id) == {k \in 1..Len(table) : table[k].id = id}

\* C13: rejudging job j keeps j's id, created_time and submission, replaces
\* its state, result, score and cases with the new judgment and sets its
\* updated_time to the time of the rejudge; no other stored job changes and
\* the number of stored jobs stays the same.
C13_RejudgeInPlace ==
    [][/\ (pc = "idle" /\ pc' = "prepare" /\ request'.op = "put")
          => /\ request'.updated_time = now
             /\ RowsWithId(jobs, request'.id) # {}
             /\ jobs' = jobs
       /\ (pc = "done" /\ request.op = "put" /\ response'.status = "Ok")
          => /\ Len(jobs') = Len(jobs)
             /\ \A k \in 1..Len(jobs) :
                   IF k \in RowsWithId(jobs, request.id)
                   THEN /\ jobs'[k].id = jobs[k].id
                        /\ jobs'[k].created_time = jobs[k].created_time
                        /\ jobs'[k].submission = jobs[k].submission
                        /\ jobs'[k].state = "Finished"
                        /\ jobs'[k].result = result
                        /\ jobs'[k].score = score
                        /\ jobs'[k].cases = case_results
                        /\ jobs'[k].updated_time = request.updated_time
                   ELSE jobs'[k] = jobs[k]]_vars

C13_Witness ==
    /\ pc = "idle"
    /\ request.op = "put"
    /\ request.id = 0
    /\ response.status = "Ok"
    /\ jobs[1].result = "Accepted"
    /\ jobs[1].created_time = 0
    /\ jobs[1].updated_time = 2
    /\ jobs[2] = StoredJob(1, 0, 0, 2)

\* C14: when a step of judging fails, judge returns an error and no Job, and
\* the handler answers with an internal error without storing anything: a
\* new submission adds no job, a rejudge leaves the stored jobs as they were.
C14_JudgeErrorStoresNothing ==
    [][/\ (ret # "err" /\ ret' = "err")
          => /\ pc' = "done"
             /\ case_results' = <<>>
             /\ jobs' = jobs
       /\ (pc = "done" /\ ret = "err" /\ pc' # pc)
          => /\ jobs' = jobs
             /\ response'.status = "InternalServerError"
             /\ response'.reason = "ERR_INTERNAL"]_vars

C14_Witness ==
    /\ pc = "idle"
    /\ request.op = "put"
    /\ response = InternalError(JudgeError)
    /\ jobs = <<StoredJob(0, 0, 0, 1)>>

\* a submission that names a language, a problem, a contest or a user that
\* does not exist, or a problem or a user the contest does not list
Unknown(submission) ==
    \/ submission.language \notin Languages
    \/ submission.problem_id \notin ProblemIds
    \/ submission.user_id \notin UserIds
    \/ /\ submission.contest_id # 0
       /\ \A k \in 1..Len(contests) :
             contests[k].id = submission.contest_id =>
                \/ \A m \in 1..Len(contests[k].problem_ids) :
                      contests[k].problem_ids[m] # submission.problem_id
                \/ \A m \in 1..Len(contests[k].user_ids) :
                      contests[k].user_ids[m] # submission.user_id

\* the response to a submission the checks of post_jobs turn down
Rejected(resp) == resp.status \in {"NotFound", "BadRequest"}

\* a step of post_jobs: from the idle server, at one reading of the clock
PostJobsStep == pc = "idle" /\ request'.op = "post" /\ now' = now

\* C16: a submission that post_jobs rejects (unknown language, problem,
\* contest or user, problem or user not of the contest, contest not open,
\* limit reached) gets an error response and has no side effect: the jobs
\* table is unchanged and judge is not called (no workspace, no process).
C16_RejectionHasNoEffect ==
    [][PostJobsStep =>
          /\ Unknown(request'.submission) => response'.status # "none"
          /\ response'.status # "none" =>
                /\ response'.status # "Ok"
                /\ jobs' = jobs
                /\ contests' = contests
                /\ users' = users
                /\ pc' = "idle"
                /\ UNCHANGED judge_locals]_vars

C16_Witness ==
    /\ pc = "idle"
    /\ request.op = "post"
    /\ request.submission.contest_id = 1
    /\ response.reason = "ERR_RATE_LIMIT"
    /\ Len(jobs) = 1

\* stored jobs of this user for this problem submitted within this contest
ContestJobs(contest_id, user_id, problem_id) ==
    {k \in 1..Len(jobs) :
        /\ jobs[k].submission.contest_id = contest_id
        /\ jobs[k].submission.user_id = user_id
        /\ jobs[k].submission.problem_id = problem_id}

\* C17: for every contest c, user u and problem p, the number of stored jobs
\* with contest_id = c, user_id = u and problem_id = p never exceeds
\* c.submission_limit.
C17_SubmissionCap ==
    \A c \in 1..Len(contests) :
        \A u \in UserIds, p \in ProblemIds :
            Cardinality(ContestJobs(contests[c].id, u, p))
                <= contests[c].submission_limit

\* the submission is for a stored contest that lists its problem and its user
ReachesWindowCheck(submission) ==
    /\ submission.language \in Languages
    /\ submission.problem_id \in ProblemIds
    /\ \E k \in 1..Len(contests) :
          /\ contests[k].id = submission.contest_id
          /\ \E m \in 1..Len(contests[k].problem_ids) :
                contests[k].problem_ids[m] = submission.problem_id
          /\ \E m \in 1..Len(contests[k].user_ids) :
                contests[k].user_ids[m] = submission.user_id

ContestOf(submission) ==
    contests[CHOOSE k \in 1..Len(contests) :
                contests[k].id = submission.contest_id]

NotOpen == "Contest {} is not open now"

\* C18: the window of a contest is [from, to): a contest submission created
\* at t with from <= t < to passes the window check, and one with t < from or
\* t >= to is rejected as "contest not open" and produces no job.
C18_HalfOpenWindow ==
    [][(/\ PostJobsStep
        /\ ReachesWindowCheck(request'.submission)
        /\ response'.status # "InternalServerError")
       => LET t == request'.created_time
              contest == ContestOf(request'.submission)
          IN IF contest.from <= t /\ t < contest.to
             THEN response'.message # NotOpen
             ELSE /\ response'.message = NotOpen
                  /\ jobs' = jobs
                  /\ pc' = "idle"]_vars

\* the stored jobs of a user for a problem that were submitted to contest id
SubmittedTo(id, user_id, problem_id) ==
    {k \in 1..Len(jobs) :
        /\ jobs[k].submission.contest_id = id
        /\ jobs[k].submission.user_id = user_id
        /\ jobs[k].submission.problem_id = problem_id}

\* C19: the standings of a contest other than 0 are made of the jobs
\* submitted to that contest only: the submissions counted for a user are
\* the user's jobs of the contest for its problems, and the standings are
\* those of the store without the practice jobs and the jobs of other
\* contests
C19_ContestJobsOnly ==
    (request.op = "ranklist" /\ request.id # 0 /\ response.status = "Ok") =>
        LET problem_ids == SelectById(contests, request.id)[1].problem_ids
            submitted ==
                SelectSeq(jobs, LAMBDA job :
                                   job.submission.contest_id = request.id)
        IN /\ \A k \in 1..Len(response.body) :
                 response.body[k].submission_count
                    = Cardinality(UNION {SubmittedTo(request.id,
                                                     response.body[k].user.id,
                                                     problem_ids[m]) :
                                            m \in 1..Len(problem_ids)})
           /\ response.body = Ranklist(submitted, request.id,
                                       request.rule).body

\* C20: for a DynamicRanking problem on which a user has an Accepted job in
\* scope, the score pushed is the dynamic score computed on the latest of the
\* user's Accepted jobs
C20_LatestAcceptedJob ==
    (request.op = "ranklist" /\ response.status = "Ok") =>
        \A k \in 1..Len(response.body) :
            LET problem_ids == RankedProblemIds(request.id) IN
            \A m \in 1..Len(problem_ids) :
                LET ranked == RankedProblem(problem_ids[m])
                    in_scope == FilteredJobs(jobs, response.body[k].user.id,
                                             request.id, problem_ids[m])
                    accepted ==
                        {a \in 1..Len(in_scope) :
                            in_scope[a].result = "Accepted"}
                    latest ==
                        CHOOSE a \in accepted :
                            \A b \in accepted :
                                \/ in_scope[b].created_time
                                      < in_scope[a].created_time
                                \/ /\ in_scope[b].created_time
                                         = in_scope[a].created_time
                                   /\ b <= a
                IN (ranked.problem_type = "DynamicRanking" /\ accepted # {})
                   => response.body[k].scores[m]
                        = DynamicScore(ranked.cases, in_scope[latest],
                                       FilterApply(
                                           [user_id |-> None,
                                            contest_id |-> Some(request.id),
                                            problem_id |->
                                                Some(problem_ids[m])],
                                           jobs),
                                       ranked.dynamic_ranking_ratio[1],
                                       Len(ranked.cases))

\* the rows and problems of the standings answered
Rows == 1..Len(response.body)
AnsweredProblemIds == RankedProblemIds(request.id)

\* the jobs the handler gathers for row k and problem m, and for problem m
\* across all users
Gathered(k, m) ==
    FilteredJobs(jobs, response.body[k].user.id, request.id,
                 AnsweredProblemIds[m])

GatheredOfAll(m) ==
    FilterApply([user_id |-> None, contest_id |-> Some(request.id),
                 problem_id |-> Some(AnsweredProblemIds[m])], jobs)

IsAccepted(job) == job.result = "Accepted"

\* C21: for a DynamicRanking problem the fastest time of a case is the
\* minimum over the Accepted jobs in scope of all users: the score pushed for
\* a user with an Accepted job is the dynamic score computed with the
\* Accepted jobs only as the source of the fastest times
C21_FastestAmongAccepted ==
    (request.op = "ranklist" /\ response.status = "Ok") =>
        \A k \in Rows : \A m \in 1..Len(AnsweredProblemIds) :
            LET ranked == RankedProblem(AnsweredProblemIds[m]) IN
            (/\ ranked.problem_type = "DynamicRanking"
             /\ \E a \in 1..Len(Gathered(k, m)) : IsAccepted(Gathered(k, m)[a]))
            => response.body[k].scores[m]
                 = DynamicScore(ranked.cases, LatestJob(Gathered(k, m))[1],
                                SelectSeq(GatheredOfAll(m), IsAccepted),
                                ranked.dynamic_ranking_ratio[1],
                                Len(ranked.cases))

\* the indexes of the jobs gathered for row k and problem m
GatheredIndexes(k, m) == 1..Len(Gathered(k, m))

\* C22: for a problem that is not DynamicRanking the score pushed for a user
\* is 0.0 without a job in scope, the score of a job of maximal score under
\* Highest, and the score of the job of maximal creation time under Latest
\* and without a scoring rule
C22_StaticScore ==
    (request.op = "ranklist" /\ response.status = "Ok") =>
        \A k \in Rows : \A m \in 1..Len(AnsweredProblemIds) :
            LET gathered == Gathered(k, m)
                pushed == response.body[k].scores[m]
            IN RankedProblem(AnsweredProblemIds[m]).problem_type
                  # "DynamicRanking"
               => IF gathered = <<>> THEN pushed = <<0, 1>>
                  ELSE IF request.rule.scoring_rule = <<"highest">>
                  THEN \E a \in GatheredIndexes(k, m) :
                          /\ \A b \in GatheredIndexes(k, m) :
                                gathered[b].score <= gathered[a].score
                          /\ pushed = <<gathered[a].score, 1>>
                  ELSE \E a \in GatheredIndexes(k, m) :
                          /\ \A b \in GatheredIndexes(k, m) :
                                gathered[b].created_time
                                   <= gathered[a].created_time
                          /\ pushed = <<gathered[a].score, 1>>

\* a user's latest job for a Standard problem scores less than an earlier
\* one, and the standings were answered under Highest
C22_Witness ==
    /\ request.op = "ranklist"
    /\ response.status = "Ok"
    /\ request.rule.scoring_rule = <<"highest">>
    /\ \E k \in Rows : \E m \in 1..Len(AnsweredProblemIds) :
          /\ RankedProblem(AnsweredProblemIds[m]).problem_type = "Standard"
          /\ Len(Gathered(k, m)) >= 2
          /\ Gathered(k, m)[Len(Gathered(k, m))].score = 0
          /\ response.body[k].scores[m] = <<1, 1>>

\* the total of a row is higher than that of another
Higher(l, r) == TotalOf(l)[1] * TotalOf(r)[2] > TotalOf(r)[1] * TotalOf(l)[2]

\* the tie-break key of a row under the tie-breaker named
KeyUnder(tie_breaker, row) ==
    IF tie_breaker = "submission_time" THEN row.max_time
    ELSE IF tie_breaker = "submission_count" THEN row.submission_count
    ELSE row.user.id

\* row l is to stand before row r under the tie-breaker named
Precedes(tie_breaker, l, r) ==
    \/ Higher(l, r)
    \/ /\ TotalOf(l) = TotalOf(r)
       /\ KeyUnder(tie_breaker, l) < KeyUnder(tie_breaker, r)
    \/ /\ TotalOf(l) = TotalOf(r)
       /\ KeyUnder(tie_breaker, l) = KeyUnder(tie_breaker, r)
       /\ l.user.id < r.user.id

\* the tie-breaker of the request, UserId when it names none
TieBreakerOrUserId ==
    IF request.rule.tie_breaker = <<>> THEN "user_id"
    ELSE request.rule.tie_breaker[1]

\* C23: the standings are ordered by total score, descending, then by the
\* tie-break key (smaller maximal submission time, fewer submissions,
\* smaller user id), ascending, then by user id, ascending
C23_StandingsOrder ==
    (request.op = "ranklist" /\ response.status = "Ok") =>
        \A k \in Rows : \A l \in Rows :
            k < l => Precedes(TieBreakerOrUserId, response.body[k],
                              response.body[l])

\* two users of equal total stand against the order of their ids, by the
\* number of their submissions
C23_Witness ==
    /\ request.op = "ranklist"
    /\ response.status = "Ok"
    /\ request.rule.tie_breaker = <<"submission_count">>
    /\ \E k \in Rows : \E l \in Rows :
          /\ k < l
          /\ TotalOf(response.body[k]) = TotalOf(response.body[l])
          /\ response.body[k].submission_count
                < response.body[l].submission_count
          /\ response.body[k].user.id > response.body[l].user.id

\* rows equal on total score and on the tie-break key
SameGroup(tie_breaker, l, r) ==
    /\ TotalOf(l) = TotalOf(r)
    /\ KeyUnder(tie_breaker, l) = KeyUnder(tie_breaker, r)

\* the position of the first row of the group of row k
GroupStart(tie_breaker, k) ==
    CHOOSE j \in 1..k :
        /\ \A m \in j..k : SameGroup(tie_breaker, response.body[m],
                                      response.body[k])
        /\ j > 1 => ~SameGroup(tie_breaker, response.body[j - 1],
                               response.body[k])

C25_UserIdIsDefault ==
    (/\ request.op = "ranklist"
     /\ response.status = "Ok"
     /\ request.rule.tie_breaker = <<>>)
    => /\ response.body
            = Ranklist(jobs, request.id,
                       [request.rule EXCEPT !.tie_breaker = <<"user_id">>]).body
       /\ \A k \in Rows : \A l \in Rows :
             response.body[k].user.id # response.body[l].user.id
                => response.body[k].rank # response.body[l].rank

\* the creation times of all jobs gathered for row k, over all problems
GatheredTimes(k) ==
    UNION {{Gathered(k, m)[a].created_time : a \in GatheredIndexes(k, m)} :
             m \in 1..Len(AnsweredProblemIds)}

\* C26: under both scoring rules the submission time of a user with a job
\* in scope is the maximal creation time of all jobs gathered for the user
C26_MaxTimeOfAllJobs ==
    (request.op = "ranklist" /\ response.status = "Ok") =>
        \A k \in Rows :
            GatheredTimes(k) # {} =>
                /\ response.body[k].max_time \in
                      {Utc(t) : t \in GatheredTimes(k)}
                /\ \A t \in GatheredTimes(k) :
                      Utc(t) <= response.body[k].max_time

\* worker w is inside judge
InFlight(w) == workers[w].pc \in {"judge", "cleanup"}

\* C27: no two judgments of the same job id are in flight at the same time
C27_OneJudgmentPerJob ==
    \A v \in Workers : \A w \in Workers :
        (v # w /\ InFlight(v) /\ InFlight(w)) => workers[v].id # workers[w].id

\* C28: no two judgments in flight at the same time have the same workspace
\* directory
C28_IsolatedWorkspaces ==
    \A v \in Workers : \A w \in Workers :
        (v # w /\ InFlight(v) /\ InFlight(w))
        => TempDir(workers[v].created_time) # TempDir(workers[w].created_time)

\* C29: every job record in the store, whether a submission or a rejudge put
\* it there, has state Finished; none is Queueing, Running or Canceled.
C29_StoredJobsFinished ==
    \A k \in 1..Len(jobs) :
        /\ jobs[k].state = "Finished"
        /\ jobs[k].state \notin {"Queueing", "Running", "Canceled"}

\* the rejudge of the stored job found a wrong answer and has been stored
C29_Witness ==
    /\ pc = "idle"
    /\ response.status = "Ok"
    /\ request.op = "put"
    /\ jobs[1].result = "WrongAnswer"
    /\ jobs[1].updated_time = 1

\* C30: once the compilation has succeeded, and as long as judge does not
\* return an error, the cases are taken one by one in the order of the
\* problem whatever the running result is: the program is spawned for case
\* i + 1 from the head of the loop only, the step that ends the case appends
\* the one entry of id i + 1 to the entries recorded so far and goes back to
\* the head of the loop, and the Job is returned only when every case has
\* been taken.  For the text problem types the entry is never Waiting.
C30_EveryCaseRunOnce ==
    [][ret' # "err" =>
          /\ (pc # "run" /\ pc' = "run")
             => /\ pc = "cases"
                /\ i < Len(problem.cases)
                /\ child' = "running"
                /\ Len(case_results) = i + 1
                /\ <<i', case_results'>> = <<i, case_results>>
          /\ i' # i
             => /\ pc \in {"run", "collect", "spj"}
                /\ pc' = "cases"
                /\ i' = i + 1
                /\ Len(case_results') = Len(case_results) + 1
                /\ SubSeq(case_results', 1, Len(case_results)) = case_results
                /\ case_results'[Len(case_results')].id = i + 1
                /\ problem.problem_type # "Spj"
                   => case_results'[Len(case_results')].result
                         \in {"Accepted", "WrongAnswer", "RuntimeError",
                              "TimeLimitExceeded"}
          /\ (pc = "cases" /\ pc' # "cases")
             => IF i < Len(problem.cases) THEN pc' = "run" ELSE ret' = "job"
          /\ (ret' = "job" /\ case_results'[1].result = "CompilationSuccess")
             => /\ i' = Len(problem.cases)
                /\ Len(case_results') = 1 + Len(problem.cases)]_vars

\* a job of two cases has been returned whose first case failed at run time
\* and whose second case was accepted
C30_Witness ==
    /\ ret = "job"
    /\ Len(problem.cases) = 2
    /\ result = "RuntimeError"
    /\ case_results[1].result = "CompilationSuccess"
    /\ case_results[2].result = "RuntimeError"
    /\ case_results[3].result = "Accepted"
    /\ i = 2

\* the stored jobs of a user for a problem, whatever they were submitted to
JobsOf(user_id, problem_id) ==
    {k \in 1..Len(jobs) :
        /\ jobs[k].submission.user_id = user_id
        /\ jobs[k].submission.problem_id = problem_id}

\* C31: in the standings of all users (contest id 0) the jobs gathered for a
\* user and a problem are all the stored jobs of that user for that problem,
\* practice jobs and jobs submitted to a contest alike: the submissions
\* counted for a user are all the user's jobs
C31_GlobalScopeGathersAll ==
    (request.op = "ranklist" /\ request.id = 0 /\ response.status = "Ok") =>
        \A k \in Rows :
            /\ \A m \in 1..Len(AnsweredProblemIds) :
                  Len(Gathered(k, m))
                     = Cardinality(JobsOf(response.body[k].user.id,
                                          AnsweredProblemIds[m]))
            /\ response.body[k].submission_count
                  = Cardinality(UNION {JobsOf(response.body[k].user.id,
                                              AnsweredProblemIds[m]) :
                                          m \in 1..Len(AnsweredProblemIds)})

\* the rows of table users with id 0
RootRows == {k \in 1..Len(users) : users[k].id = 0}

\* C32: whatever POST /users has done to the database, the start of the
\* server succeeds and leaves exactly one user with id 0, named "root".
C32_RootAfterStartup ==
    request.op = "start" =>
        /\ pc = "idle"
        /\ Cardinality(RootRows) = 1
        /\ \A k \in RootRows : users[k].name = "root"

\* C38: the jobs answered to GET /jobs?user_name=N are jobs of the stored
\* user named N, and none when no stored user has that name.
C38_UserNameFilter ==
    (request.op = "jobs" /\ request.query.user_name # <<>>
     /\ response.status = "Ok") =>
        LET named == {k \in 1..Len(users) :
                         users[k].name = request.query.user_name[1]}
        IN \A j \in 1..Len(response.body) :
              \E k \in named :
                 response.body[j].submission.user_id = users[k].id

\* C33: a submission whose judgment has finished can be stored under the id
\* it was given: no job of that id has been stored in the meantime by a
\* submission handled at the same time, so that neither of the two is lost.
C33_ConcurrentPostsBothStored ==
    \A w \in Workers :
        (workers[w].op = "post" /\ workers[w].pc = "store")
        => \A k \in 1..Len(jobs) : jobs[k].id # workers[w].id

\* C35: whenever judge has returned, with a Job or with an error, the
\* workspace directory of that judgment does not exist.
C35_WorkspaceRemoved ==
    pc = "done" => TempDir(request.created_time) \notin temp

\* the child of case n + 1 has exited with status 0 and the time limit of the
\* case has not elapsed
ExitedInTime(n) ==
    /\ pc = "run"
    /\ i = n
    /\ child = "exited"
    /\ status = 0
    /\ elapsed <= problem.cases[n + 1].time_limit

\* C34: a case whose child has exited with status 0 before its time limit
\* elapsed is never recorded as TimeLimitExceeded, however the exit, the
\* clock and the polls of the supervisor interleave afterwards.
C34_InTimeExitIsNotTimeLimit ==
    \A n \in 0..(MaxCases - 1) :
        [](ExitedInTime(n)
           => [](Len(case_results) >= n + 2
                 => case_results[n + 2].result # "TimeLimitExceeded"))

\* a problem judged on the texts, every case of it with a time limit
HasDeadlines(p) ==
    /\ p.problem_type \in {"Standard", "Strict", "DynamicRanking"}
    /\ \A k \in 1..Len(p.cases) : p.cases[k].time_limit # 0

\* C36: for a Standard, Strict or DynamicRanking problem whose cases all have
\* a non-zero time limit, once the compiler has exited judge eventually
\* returns, whether or not the submitted program ever exits (time advances
\* and judge keeps taking its steps: Fairness).
C36_JudgeReturns ==
    (pc \in {"cases", "cleanup"} /\ HasDeadlines(problem)) ~> (pc = "done")

\* judge has returned the Job of a problem of two cases with deadlines, both
\* of which ended at the deadline
C36_Witness ==
    /\ pc = "done"
    /\ ret = "job"
    /\ HasDeadlines(problem)
    /\ Len(problem.cases) = 2
    /\ case_results[2].result = "TimeLimitExceeded"
    /\ case_results[3].result = "TimeLimitExceeded"

\* the users eligible for the standings requested: those of the contest, or
\* every stored user for contest id 0
EligibleUserIds ==
    IF request.id = 0 THEN UserIds
    ELSE LET contest == SelectById(contests, request.id)[1]
         IN {contest.user_ids[k] : k \in 1..Len(contest.user_ids)}

\* C37: unless the contest is missing or the database fails, the request for
\* the standings is answered Ok with exactly one entry per eligible user, the
\* empty list when there is none.
C37_OneEntryPerEligibleUser ==
    (/\ request.op = "ranklist"
     /\ response # NoResponse
     /\ response.status \notin {"NotFound", "InternalServerError"})
    => /\ response.status = "Ok"
       /\ Len(response.body) = Cardinality(EligibleUserIds)
       /\ \A user_id \in EligibleUserIds :
             Cardinality({k \in 1..Len(response.body) :
                             response.body[k].user.id = user_id}) = 1

\* C39: a game is over once accept_guess has returned Won or Lost and takes
\* no further guess, so that in every reachable state of the console loop
\* and of the window the game in hand holds at most 6 guesses
C39_AtMostSixGuesses == Len(current_game.guesses) <= 6

\* the order of the status of a key: X (unused) < R < Y < G
StatusRank(c) ==
    CASE c = "X" -> 0
      [] c = "R" -> 1
      [] c = "Y" -> 2
      [] c = "G" -> 3

\* a step that leaves the game in hand in place: a call of accept_guess,
\* accepted or not (a new game starts with no guess)
OnOneGame ==
    /\ current_game'.answer = current_game.answer
    /\ Len(current_game'.guesses) >= Len(current_game.guesses)

\* C40: across the calls of accept_guess on one game, accepted or rejected
\* as InvalidInput, the status of each key of the keyboard only moves upward
\* in the order X < R < Y < G
C40_KeyboardOnlyMovesUp ==
    [][OnOneGame =>
          \A c \in LETTERS :
              StatusRank(current_game'.letters_status[c])
                  >= StatusRank(current_game.letters_status[c])]_vars

\* a game in which a key went from Y to G between two guesses and in which
\* a letter was marked R in a guess while its key shows Y or G
C40_Witness ==
    /\ \E g \in 1..Len(current_game.guesses), h \in 1..Len(current_game.guesses) :
          \E j \in 1..5, k \in 1..5 :
              /\ g < h
              /\ current_game.guesses[g][j] = current_game.guesses[h][k]
              /\ current_game.guesses_status[g][j] = "Y"
              /\ current_game.guesses_status[h][k] = "G"
              /\ \A m \in 1..g, n \in 1..5 :
                    current_game.guesses[m][n] = current_game.guesses[g][j]
                        => current_game.guesses_status[m][n] # "G"
    /\ \E g \in 1..Len(current_game.guesses), j \in 1..5 :
          /\ current_game.guesses_status[g][j] = "R"
          /\ current_game.letters_status[current_game.guesses[g][j]] \in {"Y", "G"}

========================================================================
